---- MODULE Spec2Model ----
(***************************************************************************)
(* Listener dispatch of Robot Framework (src/robot/output/listeners.py):   *)
(* the Listeners bus, the LibraryListeners scope stack, the listener       *)
(* facades and the ListenerMethod guard, as a call-stack state machine.    *)
(***************************************************************************)
EXTENDS Integers, Sequences, FiniteSets, TLC

(***************************************************************************)
(* Bounds of the model.                                                    *)
(***************************************************************************)
\* longest list of listeners given to Listeners.__init__
MaxListeners == 2
\* deepest LibraryListeners scope stack
MaxScopes == 2
\* most facades in one scope frame
MaxFrameLen == 4
\* deepest call stack (only a broken guard ever nests deeper than two)
MaxDepth == 4
\* most calls that one run of a listener method makes
MaxNested == 1

\* Python's None
None == "None"

(***************************************************************************)
(* Strings: str.lower, str.capitalize, str.split('_'), ''.join.            *)
(***************************************************************************)
Upper(c) ==
    CASE c = "a" -> "A" [] c = "b" -> "B" [] c = "c" -> "C" [] c = "d" -> "D"
      [] c = "e" -> "E" [] c = "f" -> "F" [] c = "g" -> "G" [] c = "h" -> "H"
      [] c = "i" -> "I" [] c = "j" -> "J" [] c = "k" -> "K" [] c = "l" -> "L"
      [] c = "m" -> "M" [] c = "n" -> "N" [] c = "o" -> "O" [] c = "p" -> "P"
      [] c = "q" -> "Q" [] c = "r" -> "R" [] c = "s" -> "S" [] c = "t" -> "T"
      [] c = "u" -> "U" [] c = "v" -> "V" [] c = "w" -> "W" [] c = "x" -> "X"
      [] c = "y" -> "Y" [] c = "z" -> "Z" [] OTHER -> c

Lower(c) ==
    CASE c = "A" -> "a" [] c = "B" -> "b" [] c = "C" -> "c" [] c = "D" -> "d"
      [] c = "E" -> "e" [] c = "F" -> "f" [] c = "G" -> "g" [] c = "H" -> "h"
      [] c = "I" -> "i" [] c = "J" -> "j" [] c = "K" -> "k" [] c = "L" -> "l"
      [] c = "M" -> "m" [] c = "N" -> "n" [] c = "O" -> "o" [] c = "P" -> "p"
      [] c = "Q" -> "q" [] c = "R" -> "r" [] c = "S" -> "s" [] c = "T" -> "t"
      [] c = "U" -> "u" [] c = "V" -> "v" [] c = "W" -> "w" [] c = "X" -> "x"
      [] c = "Y" -> "y" [] c = "Z" -> "z" [] OTHER -> c

RECURSIVE lower(_)
lower(s) ==
    IF Len(s) = 0 THEN ""
    ELSE Lower(SubSeq(s, 1, 1)) \o lower(SubSeq(s, 2, Len(s)))

capitalize(s) ==
    IF Len(s) = 0 THEN ""
    ELSE Upper(SubSeq(s, 1, 1)) \o lower(SubSeq(s, 2, Len(s)))

\* the position of the first '_' of s, 0 when it has none
least(hits) ==
    IF hits = {} THEN 0 ELSE CHOOSE i \in hits : \A j \in hits : i <= j

find_underscore(s) == least({i \in 1..Len(s) : SubSeq(s, i, i) = "_"})

\* s.split('_'), i the position of the first '_' of s
RECURSIVE split_at(_, _)
split_at(s, i) ==
    IF i = 0 THEN <<s>>
    ELSE <<SubSeq(s, 1, i - 1)>>
         \o split_at(SubSeq(s, i + 1, Len(s)),
                     find_underscore(SubSeq(s, i + 1, Len(s))))

split(s) == split_at(s, find_underscore(s))

RECURSIVE join(_)
join(parts) ==
    IF Len(parts) = 0 THEN "" ELSE Head(parts) \o join(Tail(parts))

(***************************************************************************)
(* The raw listener objects and the libraries of the model.  A listener    *)
(* has a declared ROBOT_LISTENER_API_VERSION (Undeclared when it declares  *)
(* none), attributes that are methods, and attributes whose value is       *)
(* falsy.  A declared version is a Python value: its type and its text.    *)
(***************************************************************************)
Undeclared == [type |-> "undeclared", text |-> ""]
PyInt(text) == [type |-> "int", text |-> text]
PyStr(text) == [type |-> "str", text |-> text]
PyFloat(text) == [type |-> "float", text |-> text]
PyNone == [type |-> "NoneType", text |-> "None"]

NoListener == [version |-> Undeclared, methods |-> {}, falsy |-> {}]

Listener(name) ==
    CASE name = "ListenerA" ->
           [version |-> Undeclared,
            methods |-> {"start_suite", "end_keyword", "start_user_keyword",
                         "log_message", "output_file"},
            falsy   |-> {}]
      [] name = "ListenerB" ->
           [version |-> PyInt("3"),
            methods |-> {"startSuite", "startKeyword", "endTest", "message",
                         "logFile", "close"},
            falsy   |-> {"start_suite", "start_library_keyword"}]
      [] name = "ListenerC" ->
           [version |-> PyStr("2"),
            methods |-> {"start_suite", "startKeyword", "end_keyword",
                         "log_message", "library_import"},
            falsy   |-> {}]
      [] name = "StartEndBobyItemOnly" ->
           [version |-> PyInt("3"),
            methods |-> {"_start_suite", "_close"},
            falsy   |-> {}]
      [] name = "SeparateMethods" ->
           [version |-> PyInt("3"),
            methods |-> {"start_keyword", "end_keyword", "close"},
            falsy   |-> {}]
      [] name = "SeparateMethodsAlsoForKeywords" ->
           [version |-> PyInt("3"),
            methods |-> {"start_keyword", "start_user_keyword",
                         "_endLibraryKeyword"},
            falsy   |-> {}]
      [] name = "Legacy" ->
           [version |-> PyInt("2"),
            methods |-> {"start_suite", "endSuite", "start_test", "end_test",
                         "start_keyword", "end_keyword", "log_message",
                         "message", "close"},
            falsy   |-> {}]
      [] name = "UnsupportedVersion" ->
           [version |-> PyInt("1"),
            methods |-> {"start_suite", "close"},
            falsy   |-> {}]
      [] OTHER -> NoListener

ListenerNames ==
    {"ListenerA", "ListenerB", "ListenerC", "StartEndBobyItemOnly",
     "SeparateMethods",
     "SeparateMethodsAlsoForKeywords", "Legacy", "UnsupportedVersion"}

\* the listeners that can be given to Listeners.__init__: "Missing" is a
\* name that cannot be imported
TopListeners ==
    {"ListenerA", "ListenerB", "ListenerC", "UnsupportedVersion", "Missing"}

\* library.listeners of each library
LibraryOf(name) ==
    CASE name = "Library" ->
           [listeners |-> <<"StartEndBobyItemOnly", "SeparateMethods",
                            "SeparateMethodsAlsoForKeywords">>]
      [] name = "Quiet" -> [listeners |-> <<>>]
      [] name = "Other" -> [listeners |-> <<"StartEndBobyItemOnly">>]
      [] name = "Broken" ->
           [listeners |-> <<"SeparateMethods", "UnsupportedVersion">>]
      [] OTHER -> [listeners |-> <<>>]

Libraries == {"Library", "Quiet", "Other", "Broken"}

(***************************************************************************)
(* ListenerMethod: the guarded call.                                       *)
(***************************************************************************)
ListenerMethod(method, name) == [method |-> method, listener_name |-> name]

\* ListenerMethod.__bool__
\* a __bool__ that holds of every ListenerMethod
ListenerMethod_bool_always(lm) == TRUE

ListenerMethod_bool(lm) == lm.method # None

\* ListenerMethod.__call__ up to the try: does the call reach self.method?
\* a __call__ without `if self.called: return`
ListenerMethod_enters_reentrant(lm, flag) == lm.method # None

ListenerMethod_enters(lm, flag) ==
    IF lm.method = None THEN FALSE
    ELSE IF flag THEN FALSE
    ELSE TRUE

(***************************************************************************)
(* ListenerFacade: method resolution.                                      *)
(***************************************************************************)
\* "".join([first] + [p.capitalize() for p in rest])
camel(parts) ==
    join(<<Head(parts)>>
         \o [k \in 1..(Len(parts) - 1) |-> capitalize(parts[k + 1])])

_to_camelCase(name) == camel(split(name))

\* the underscore names added for every listener
with_library_always(names, library) ==
    names \o [k \in 1..Len(names) |-> "_" \o names[k]]

\* names += ["_" + name for name in names] when the listener is a library's
with_library(names, library) ==
    IF library # None
    THEN names \o [k \in 1..Len(names) |-> "_" \o names[k]]
    ELSE names

_get_method_names(name, library) ==
    with_library(IF find_underscore(name) # 0
                 THEN <<name, _to_camelCase(name)>>
                 ELSE <<name>>,
                 library)

\* a falsy attribute value (None, 0, '' ...) of a listener
Falsy == "<falsy>"

\* getattr(listener, method_name, None): the bound method (named by its
\* attribute), the falsy value of the attribute, or the default None
getattr(listener, method_name) ==
    IF method_name \in listener.methods THEN method_name
    ELSE IF method_name \in listener.falsy THEN Falsy
    ELSE None

\* the truth value of an attribute value
truthy(value) == value # None /\ value # Falsy

\* the first of the names whose attribute is truthy, 0 when there is none
first_method(listener, names) ==
    least({k \in 1..Len(names) : truthy(getattr(listener, names[k]))})

\* the loop of _get_method over the candidate names
get_method_of(listener, listener_name, names, k) ==
    IF k = 0 THEN ListenerMethod(None, listener_name)
    ELSE ListenerMethod(getattr(listener, names[k]), listener_name)

get_method_in(listener, listener_name, names) ==
    get_method_of(listener, listener_name, names,
                  first_method(listener, names))

_get_method(listener, listener_name, library, name) ==
    get_method_in(listener, listener_name, _get_method_names(name, library))

(***************************************************************************)
(* The event surface and the objects the engine passes.                    *)
(***************************************************************************)
BodyItems ==
    {"suite", "test", "keyword", "for", "for_iteration", "while",
     "while_iteration", "if", "if_branch", "try", "try_branch", "return",
     "continue", "break", "error", "var"}

\* start_suite(data, result) ... end_var(data, result)
TwoArgMethods ==
    {"start_" \o b : b \in BodyItems} \cup {"end_" \o b : b \in BodyItems}

KeywordKinds == {"user", "library", "invalid"}

\* start_user_keyword(data, implementation, result) ...
ThreeArgMethods ==
    {"start_" \o k \o "_keyword" : k \in KeywordKinds}
        \cup {"end_" \o k \o "_keyword" : k \in KeywordKinds}

Levels == {"DEBUG", "INFO"}
ImportTypes == {"Library", "Resource"}
FileTypes == {"Output", "Log"}

Data(n) == [obj |-> "data", id |-> n]
Implementation(n) == [obj |-> "implementation", id |-> n]
Result(n) == [obj |-> "result", id |-> n]
Message(n, level) == [obj |-> "message", id |-> n, level |-> level]
Str(value) == [obj |-> "str", value |-> value]

\* the calls of the event methods of a bus, on the objects numbered n
EventCallsOn(n) ==
    {[method |-> m, args |-> <<Data(n), Result(n)>>] : m \in TwoArgMethods}
    \cup {[method |-> m, args |-> <<Data(n), Implementation(n), Result(n)>>] :
            m \in ThreeArgMethods}
    \cup {[method |-> m, args |-> <<Message(n, l)>>] :
            m \in {"log_message", "message"}, l \in Levels}
    \cup {[method |-> "imported", args |-> <<Str(t), Str("name"), Str("attrs")>>] :
            t \in ImportTypes}
    \cup {[method |-> "output_file", args |-> <<Str(t), Str("path")>>] :
            t \in FileTypes}
    \cup {[method |-> "close", args |-> <<>>]}

\* the engine's objects are numbered 1, those of the activity that listener
\* code starts are numbered 2
EventCalls == [n \in {1, 2} |-> EventCallsOn(n)]

\* the names that facades resolve: the event methods and the file methods
MethodNames ==
    TwoArgMethods \cup ThreeArgMethods
        \cup {"log_message", "message", "close"}
        \cup {lower(t) \o "_file" : t \in FileTypes}
        \cup {lower(t) \o "_import" : t \in ImportTypes}

(***************************************************************************)
(* The facades.                                                            *)
(***************************************************************************)
ListenerV3Facade(listener, name, library) ==
    [class |-> "ListenerV3Facade", listener |-> listener, name |-> name,
     library |-> library]

ListenerV2Facade(listener, name, library) ==
    [class |-> "ListenerV2Facade", listener |-> listener, name |-> name,
     library |-> library]

\* the ListenerMethods of every listener, with and without a library
Resolved ==
    [l \in ListenerNames |-> [lib \in {None, "library"} |-> [n \in MethodNames |->
        _get_method(Listener(l), l, lib, n).method]]]

\* the ListenerMethod a facade has bound for an event name
Bound(f, name) ==
    ListenerMethod(
        Resolved[f.listener][IF f.library = None THEN None ELSE "library"][name],
        f.name)

\* a facade method that calls no ListenerMethod
NoCall(f) == [lm |-> ListenerMethod(None, f.name), args |-> <<>>]

\* start_keyword or end_keyword, the generic pair of a keyword method
generic_keyword(method) ==
    IF SubSeq(method, 1, 6) = "start_" THEN "start_keyword" ELSE "end_keyword"

\* ListenerFacade.output_file(type_, path)
output_file(f, args) ==
    [lm |-> Bound(f, lower(args[1].value) \o "_file"), args |-> <<args[2]>>]

\* a fallback that forwards (data, implementation, result)
specialized_keyword_same_args(f, method, args) ==
    IF ListenerMethod_bool(Bound(f, method))
    THEN [lm |-> Bound(f, method), args |-> args]
    ELSE [lm |-> Bound(f, generic_keyword(method)), args |-> args]

\* ListenerV3Facade.start_user_keyword ... end_invalid_keyword
specialized_keyword(f, method, args) ==
    IF ListenerMethod_bool(Bound(f, method))
    THEN [lm |-> Bound(f, method), args |-> args]
    ELSE [lm |-> Bound(f, generic_keyword(method)),
          args |-> <<args[1], args[3]>>]

\* the ListenerMethod call that a method of a ListenerV3Facade makes
ListenerV3Facade_call(f, method, args) ==
    IF method \in ThreeArgMethods THEN specialized_keyword(f, method, args)
    ELSE IF method = "output_file" THEN output_file(f, args)
    ELSE IF method = "imported" THEN NoCall(f)
    ELSE [lm |-> Bound(f, method), args |-> args]

(***************************************************************************)
(* ListenerV2Facade: the attribute mappings.  An attribute of an object is *)
(* a value named by the object and the attribute; list(), dict(), str()    *)
(* and the other conversions are applied to it by name.                    *)
(***************************************************************************)
attr(object, name) ==
    [obj |-> "attr", of |-> object.obj, id |-> object.id, name |-> name]

conv(fn, value) == [obj |-> fn, of |-> value]

EmptyList == [obj |-> "list", of |-> <<>>]

\* result.flavor of a FOR
flavor(result) ==
    CASE result.id = 1 -> "IN ENUMERATE" [] result.id = 2 -> "IN ZIP"
      [] OTHER -> "IN"

\* result.type of an IF/ELSE or TRY/EXCEPT branch
branch_type(result, method) ==
    IF method \in {"start_if_branch", "end_if_branch"}
    THEN (IF result.id = 1 THEN "ELSE" ELSE "ELSE IF")
    ELSE (IF result.id = 1 THEN "EXCEPT" ELSE "FINALLY")

\* result.name.startswith('$') of a VAR
is_scalar(result) == result.id = 1

\* msg.html
html(msg) == msg.id = 1

\* attributes that get the keys of the end at the start as well
With_always(attrs, end, more) == more @@ attrs

With(attrs, end, more) == IF end THEN more @@ attrs ELSE attrs

_suite_attrs(data, result, end) ==
    With([id         |-> attr(data, "id"),
          doc        |-> attr(result, "doc"),
          metadata   |-> conv("dict", attr(result, "metadata")),
          starttime  |-> attr(result, "starttime"),
          longname   |-> attr(result, "full_name"),
          tests      |-> conv("names", attr(data, "tests")),
          suites     |-> conv("names", attr(data, "suites")),
          totaltests |-> attr(data, "test_count"),
          source     |-> conv("str", attr(data, "source"))],
         end,
         [endtime     |-> attr(result, "endtime"),
          elapsedtime |-> attr(result, "elapsedtime"),
          status      |-> attr(result, "status"),
          message     |-> attr(result, "message"),
          statistics  |-> attr(result, "stat_message")])

_test_attrs(data, result, end) ==
    With([id           |-> attr(data, "id"),
          doc          |-> attr(result, "doc"),
          tags         |-> conv("list", attr(result, "tags")),
          lineno       |-> attr(data, "lineno"),
          starttime    |-> attr(result, "starttime"),
          longname     |-> attr(result, "full_name"),
          source       |-> conv("str", attr(data, "source")),
          template     |-> conv("or ''", attr(data, "template")),
          originalname |-> attr(data, "name")],
         end,
         [endtime     |-> attr(result, "endtime"),
          elapsedtime |-> attr(result, "elapsedtime"),
          status      |-> attr(result, "status"),
          message     |-> attr(result, "message")])

_keyword_attrs(data, result, end) ==
    With([doc       |-> attr(result, "doc"),
          lineno    |-> attr(data, "lineno"),
          type      |-> attr(result, "type"),
          status    |-> attr(result, "status"),
          starttime |-> attr(result, "starttime"),
          source    |-> conv("str", attr(data, "source")),
          kwname    |-> conv("or ''", attr(result, "name")),
          libname   |-> conv("or ''", attr(result, "owner")),
          args      |-> conv("safe_str", attr(result, "args")),
          assign    |-> conv("list", attr(result, "assign")),
          tags      |-> conv("list", attr(result, "tags"))],
         end,
         [endtime     |-> attr(result, "endtime"),
          elapsedtime |-> attr(result, "elapsedtime")])

_attrs(data, result, end, extra) ==
    With(extra @@
         [doc       |-> Str(""),
          lineno    |-> attr(data, "lineno"),
          type      |-> attr(result, "type"),
          status    |-> attr(result, "status"),
          starttime |-> attr(result, "starttime"),
          source    |-> conv("str", attr(data, "source")),
          kwname    |-> attr(result, "_log_name"),
          libname   |-> Str(""),
          args      |-> EmptyList,
          assign    |-> EmptyList,
          tags      |-> EmptyList],
         end,
         [endtime     |-> attr(result, "endtime"),
          elapsedtime |-> attr(result, "elapsedtime")])

_for_extra_attrs(result) ==
    (IF flavor(result) = "IN ENUMERATE"
     THEN [start |-> attr(result, "start")]
     ELSE IF flavor(result) = "IN ZIP"
     THEN [fill |-> attr(result, "fill"), mode |-> attr(result, "mode")]
     ELSE <<>>)
    @@ [variables |-> conv("list", attr(result, "assign")),
        flavor    |-> conv("or ''", attr(result, "flavor")),
        values    |-> conv("list", attr(result, "values"))]

_try_extra_attrs(result, method) ==
    IF branch_type(result, method) = "EXCEPT"
    THEN [patterns     |-> conv("list", attr(result, "patterns")),
          pattern_type |-> attr(result, "pattern_type"),
          variable     |-> attr(result, "assign")]
    ELSE <<>>

_var_extra_attrs(result) ==
    [name  |-> attr(result, "name"),
     value |-> IF is_scalar(result) THEN conv("join", attr(result, "value"))
               ELSE conv("list", attr(result, "value")),
     scope |-> conv("or 'LOCAL'", attr(result, "scope"))]

_message_attributes(msg) ==
    [timestamp |-> conv("legacy isoformat", attr(msg, "timestamp")),
     message   |-> attr(msg, "message"),
     level     |-> Str(msg.level),
     html      |-> Str(IF html(msg) THEN "yes" ELSE "no")]

\* the extra attributes of the body item events of ListenerV2Facade
extra_attrs(method, result) ==
    CASE method \in {"start_for", "end_for"} -> _for_extra_attrs(result)
      [] method \in {"start_for_iteration", "end_for_iteration"} ->
           [variables |-> conv("dict", attr(result, "assign"))]
      [] method \in {"start_while", "end_while"} ->
           [condition        |-> attr(result, "condition"),
            limit            |-> attr(result, "limit"),
            on_limit         |-> attr(result, "on_limit"),
            on_limit_message |-> attr(result, "on_limit_message")]
      [] method \in {"start_if_branch", "end_if_branch"} ->
           IF branch_type(result, method) # "ELSE"
           THEN [condition |-> attr(result, "condition")] ELSE <<>>
      [] method \in {"start_try_branch", "end_try_branch"} ->
           _try_extra_attrs(result, method)
      [] method \in {"start_return", "end_return"} ->
           [values |-> conv("list", attr(result, "values"))]
      [] method \in {"start_var", "end_var"} -> _var_extra_attrs(result)
      [] OTHER -> <<>>

is_end(method) == SubSeq(method, 1, 4) = "end_"

\* a facade that has one method for start and end
_kw_start(f, method) == Bound(f, "start_keyword")

\* self._start_kw or self._end_kw
_kw(f, method) ==
    Bound(f, IF is_end(method) THEN "end_keyword" ELSE "start_keyword")

\* the body item events that ListenerV2Facade defines
V2BodyItemMethods ==
    {p \o b : p \in {"start_", "end_"},
              b \in {"for", "for_iteration", "while", "while_iteration",
                     "if_branch", "try_branch", "return", "continue", "break",
                     "error", "var"}}

\* the events that ListenerV2Facade leaves to LoggerApi
LoggerApiMethods ==
    ThreeArgMethods \cup {"start_if", "end_if", "start_try", "end_try"}

\* ListenerV2Facade.start_for ... end_var
v2_body_item(f, method, args) ==
    [lm   |-> _kw(f, method),
     args |-> <<attr(args[2], "_log_name"),
                _attrs(args[1], args[2], is_end(method),
                       extra_attrs(method, args[2]))>>]

\* ListenerV2Facade.start_keyword, end_keyword
v2_keyword(f, method, data, result) ==
    [lm   |-> _kw(f, method),
     args |-> <<attr(result, "full_name"),
                _keyword_attrs(data, result, is_end(method))>>]

\* LoggerApi for a ListenerV2Facade: the keyword events go to the generic
\* pair, IF and TRY are body items
LoggerApi_call(f, method, args) ==
    IF method \in ThreeArgMethods
    THEN v2_keyword(f, method, args[1], args[3])
    ELSE v2_body_item(f, method, args)

\* the ListenerMethod call that a method of a ListenerV2Facade makes
ListenerV2Facade_call(f, method, args) ==
    CASE method = "imported" ->
           [lm   |-> Bound(f, lower(args[1].value) \o "_import"),
            args |-> <<args[2], args[3]>>]
      [] method = "output_file" -> output_file(f, args)
      [] method \in {"start_suite", "end_suite"} ->
           [lm   |-> Bound(f, method),
            args |-> <<attr(args[2], "name"),
                       _suite_attrs(args[1], args[2], is_end(method))>>]
      [] method \in {"start_test", "end_test"} ->
           [lm   |-> Bound(f, method),
            args |-> <<attr(args[2], "name"),
                       _test_attrs(args[1], args[2], is_end(method))>>]
      [] method \in {"start_keyword", "end_keyword"} ->
           v2_keyword(f, method, args[1], args[2])
      [] method \in V2BodyItemMethods -> v2_body_item(f, method, args)
      [] method \in {"log_message", "message"} ->
           [lm   |-> Bound(f, method),
            args |-> <<_message_attributes(args[1])>>]
      [] method = "close" -> [lm |-> Bound(f, "close"), args |-> <<>>]
      [] OTHER -> LoggerApi_call(f, method, args)

\* the ListenerMethod call that a facade method makes
FacadeCall(f, method, args) ==
    IF f.class = "ListenerV2Facade"
    THEN ListenerV2Facade_call(f, method, args)
    ELSE ListenerV3Facade_call(f, method, args)

(***************************************************************************)
(* Listeners: import of the listeners.                                     *)
(***************************************************************************)
Digits == "0123456789"

IsDigit(c) == \E d \in 1..Len(Digits) : SubSeq(Digits, d, d) = c

digit(c) == (CHOOSE d \in 1..Len(Digits) : SubSeq(Digits, d, d) = c) - 1

IsDigits(s) ==
    Len(s) > 0 /\ \A i \in 1..Len(s) : IsDigit(SubSeq(s, i, i))

\* the number that a string of digits denotes
RECURSIVE number(_)
number(s) ==
    IF Len(s) = 0 THEN 0
    ELSE 10 * number(SubSeq(s, 1, Len(s) - 1)) + digit(SubSeq(s, Len(s), Len(s)))

\* the digits of the text of a float before its point
whole(s) == SubSeq(s, 1, least({i \in 1..Len(s) : SubSeq(s, i, i) = "."}) - 1)

\* int(version): of an int its value, of a float its value truncated, of
\* a str the number it spells (ValueError when it spells none), and
\* TypeError of None
int(version) ==
    CASE version.type = "int" ->
           [raised |-> None, value |-> number(version.text)]
      [] version.type = "float" ->
           [raised |-> None, value |-> number(whole(version.text))]
      [] version.type = "str" ->
           IF IsDigits(version.text)
           THEN [raised |-> None, value |-> number(version.text)]
           ELSE [raised |-> "ValueError", value |-> 0]
      [] OTHER -> [raised |-> "TypeError", value |-> 0]

\* Listeners._get_version after int(version): the version 2 or 3, or the
\* DataError raised for ValueError and TypeError
check_version(v) ==
    IF v.raised \in {"ValueError", "TypeError"} \/ v.value \notin {2, 3}
    THEN [raised |-> "DataError", version |-> 0]
    ELSE [raised |-> None, version |-> v.value]

\* getattr(listener, 'ROBOT_LISTENER_API_VERSION', 3)
declared_version(listener) ==
    IF listener.version = Undeclared THEN PyInt("3") ELSE listener.version

_get_version(listener) == check_version(int(declared_version(listener)))

\* Listeners._import_listener after the import: the facade, or "DataError"
facade_of(version, name, library) ==
    IF version.raised # None THEN [error |-> version.raised]
    ELSE IF version.version = 2
    THEN [error |-> None, facade |-> ListenerV2Facade(name, name, library)]
    ELSE [error |-> None, facade |-> ListenerV3Facade(name, name, library)]

\* Listeners._import_listener of a listener object
take_into_use(listener, name, library) ==
    facade_of(_get_version(listener), name, library)

\* Listeners._import_listener of a listener name: the import of a name
\* that names no listener raises DataError
_import_listener(name, library) ==
    IF name \notin ListenerNames THEN [error |-> "DataError"]
    ELSE take_into_use(Listener(name), name, library)

\* Listeners._import_listeners: the facades imported, the LOGGER.error
\* records written, and the DataError raised for a library's listener
\* one step of the loop: the listener `one` before the listeners `rest`
\* a loop that logs the failure of a library's listener as well
import_step_logging(one, rest, source, library) ==
    IF one.error = None
    THEN [rest EXCEPT !.imported = <<one.facade>> \o rest.imported]
    ELSE [rest EXCEPT !.errors = <<source>> \o rest.errors]

import_step(one, rest, source, library) ==
    IF rest.raised # None THEN rest
    ELSE IF one.error = None
    THEN [rest EXCEPT !.imported = <<one.facade>> \o rest.imported]
    ELSE IF library # None
    THEN [imported |-> <<>>, errors |-> <<>>, raised |-> "DataError"]
    ELSE [rest EXCEPT !.errors = <<source>> \o rest.errors]

RECURSIVE _import_listeners(_, _)
_import_listeners(sources, library) ==
    IF Len(sources) = 0
    THEN [imported |-> <<>>, errors |-> <<>>, raised |-> None]
    ELSE import_step(_import_listener(Head(sources), library),
                     _import_listeners(Tail(sources), library),
                     Head(sources), library)

\* the lists of up to n listeners
RECURSIVE Sources(_)
Sources(n) ==
    IF n = 0 THEN {<<>>}
    ELSE Sources(n - 1)
         \cup {Append(s, l) : s \in {t \in Sources(n - 1) : Len(t) = n - 1},
                              l \in TopListeners}

Different(s) == \A i, j \in 1..Len(s) : i # j => s[i] # s[j]

(***************************************************************************)
(* The state.                                                              *)
(***************************************************************************)
VARIABLES
    libraries,          \* the libraries that the run has imported
    levels,             \* the levels that the run gives to set_log_level
    log_level,          \* the level of self._is_logged of each bus
    listeners,          \* Listeners._listeners of the top-level bus
    library_listeners,  \* LibraryListeners._listeners: the stack of frames
    called,             \* ListenerMethod.called
    stack,              \* the call stack: loops and listener methods running
    calls,              \* the listener methods entered since the engine's call
    log,                \* the LOGGER records written since the engine's call
    done                \* what the code in control got from its last call

vars ==
    <<libraries, levels, log_level, listeners, library_listeners, called,
      stack, calls, log, done>>

\* the levels of messages, from the least severe
LevelOrder == <<"TRACE", "DEBUG", "INFO", "WARN", "ERROR">>

severity(level) == CHOOSE k \in 1..Len(LevelOrder) : LevelOrder[k] = level

\* IsLogged.__call__
_is_logged(minimum, level) == severity(level) >= severity(minimum)

\* IsLogged.set_level
set_level(level) == level

Nothing == [kind |-> "nothing"]

Top == stack[Len(stack)]
Front(s) == SubSeq(s, 1, Len(s) - 1)

\* listener code is running on top of the stack
InBody == stack # <<>> /\ Top.kind = "call" /\ Top.pc = "body"

\* the objects of a call: the engine's own, or those of the activity that
\* listener code starts
ObjectsNow == IF stack = <<>> THEN 1 ELSE 2

\* a listeners property that returns the first frame
LibraryListeners_listeners_first(ll) == IF Len(ll) > 0 THEN ll[1] ELSE <<>>

\* LibraryListeners.listeners
LibraryListeners_listeners(ll) == IF Len(ll) > 0 THEN ll[Len(ll)] ELSE <<>>

\* the call `listener.method(args)` in the loop of a bus event method
Listeners_invoke(listener, method, args) ==
    [facade |-> listener, method |-> method, args |-> args]

\* an iteration that skips every other listener
for_next_skipping(i) == i + 2

\* the next position of the iteration `for listener in ...`
for_next(i) == i + 1

\* an unregister that closes the listeners whatever `close` is
Visit_closing(fr, k) ==
    IF fr.kind = "dispatch"
    THEN <<Listeners_invoke(fr.list[k], fr.method, fr.args)>>
    ELSE IF fr.list[k].library # fr.library THEN <<>>
    ELSE <<Listeners_invoke(fr.list[k], "close", <<>>)>>

\* what the loop of a frame does with the listener at position k: the
\* facade method it calls, if any
Visit(fr, k) ==
    IF fr.kind = "dispatch"
    THEN <<Listeners_invoke(fr.list[k], fr.method, fr.args)>>
    ELSE IF fr.list[k].library # fr.library THEN <<>>
    ELSE IF fr.close THEN <<Listeners_invoke(fr.list[k], "close", <<>>)>>
    ELSE <<>>

\* the ListenerMethod call made at position k, NoCall when none is made
call_of(v, f) ==
    IF v = <<>> THEN NoCall(f)
    ELSE FacadeCall(v[1].facade, v[1].method, v[1].args)

CallAt(fr, k) == call_of(Visit(fr, k), fr.list[k])

\* an unregister that keeps the facades that have no close method
Seen_keeping_unclosed(fr, k) ==
    [fr EXCEPT !.i = k,
               !.invoked = fr.invoked \o Visit(fr, k),
               !.remaining = IF fr.kind = "unregister"
                                /\ (fr.list[k].library # fr.library
                                      \/ (fr.close
                                            /\ CallAt(fr, k).lm.method = None))
                             THEN Append(fr.remaining, fr.list[k])
                             ELSE fr.remaining]

\* the loop of a frame run from position fr.i while no listener method is
\* entered: the frame suspended at the first position that enters one, or
\* run to the end of its list
\* the frame after its loop has visited position k
Seen(fr, k) ==
    [fr EXCEPT !.i = k,
               !.invoked = fr.invoked \o Visit(fr, k),
               !.remaining = IF fr.kind = "unregister"
                                /\ fr.list[k].library # fr.library
                             THEN Append(fr.remaining, fr.list[k])
                             ELSE fr.remaining]

RECURSIVE RunLoopAt(_, _, _)
RunLoopAt(fr, k, flag) ==
    IF k > Len(fr.list) \/ k < 1 THEN [fr EXCEPT !.entered = FALSE]
    ELSE IF ListenerMethod_enters(CallAt(fr, k).lm, flag)
    THEN [Seen(fr, k) EXCEPT !.entered = TRUE]
    ELSE RunLoopAt(Seen(fr, k), for_next(k), flag)

RunLoop(fr, flag) == RunLoopAt(fr, for_next(fr.i), flag)

\* the frame of a bus event method
DispatchFrame(bus, c, list, att) ==
    [kind |-> "dispatch", bus |-> bus, method |-> c.method, args |-> c.args,
     list |-> list, att |-> att, i |-> 0, invoked |-> <<>>,
     remaining |-> <<>>, entered |-> FALSE, library |-> None,
     close |-> FALSE]

\* the frame of LibraryListeners.unregister
UnregisterFrame(library, close, list, att) ==
    [kind |-> "unregister", bus |-> "LibraryListeners",
     method |-> "unregister", args |-> <<>>,
     list |-> list, att |-> att, i |-> 0, invoked |-> <<>>,
     remaining |-> <<>>, entered |-> FALSE, library |-> library,
     close |-> close]

\* the frame of ListenerMethod.__call__ inside self.method(args)
CallFrame(f, c) ==
    [kind |-> "call", pc |-> "body", facade |-> f, lm |-> c.lm,
     args |-> c.args, nested |-> 0]

\* the record of a listener method entered
CallRecord(f, c) ==
    [listener |-> f.listener, library |-> f.library, method |-> c.lm.method,
     args |-> c.args]

\* the record of a finished call
Done(fr, depth, result) ==
    [kind |-> fr.kind, bus |-> fr.bus, method |-> fr.method,
     args |-> fr.args, library |-> fr.library, close |-> fr.close,
     list |-> fr.list, att |-> fr.att, invoked |-> fr.invoked,
     depth |-> depth, result |-> result]

\* the frames iterating the list object at depth d of the scope stack
\* lose it when the frame is replaced or discarded
Detach(s, d) ==
    [k \in 1..Len(s) |->
        IF s[k].kind # "call" /\ s[k].att = d /\ d > 0
        THEN [s[k] EXCEPT !.att = 0] ELSE s[k]]

\* list.extend on the list object at depth d is seen by the frames
\* iterating it
Extend(s, d, new) ==
    [k \in 1..Len(s) |->
        IF s[k].kind # "call" /\ s[k].att = d /\ d > 0
        THEN [s[k] EXCEPT !.list = s[k].list \o new] ELSE s[k]]

(***************************************************************************)
(* Running on: the state after a loop frame, put on the frames below it,   *)
(* runs until it enters a listener method or ends.                         *)
(***************************************************************************)
Outcome(s, flag, cs, ll, dn) ==
    [stack |-> s, called |-> flag, calls |-> cs, ll |-> ll, done |-> dn]

\* self.method(args) without ListenerMethod.called = True
Enter_unflagged(below, r, f, c, cs, ll, dn) ==
    Outcome(below \o <<r, CallFrame(f, c)>>, FALSE,
            Append(cs, CallRecord(f, c)), ll, dn)

\* ListenerMethod.called = True; self.method(args)
Enter(below, r, f, c, cs, ll, dn) ==
    Outcome(below \o <<r, CallFrame(f, c)>>, TRUE,
            Append(cs, CallRecord(f, c)), ll, dn)

\* an unregister that ends with self._listeners[0] = remaining
Leave_first(below, r, flag, cs, ll) ==
    IF r.kind = "dispatch"
    THEN Outcome(below, flag, cs, ll, Done(r, Len(below) + 1, "returned"))
    ELSE IF Len(ll) = 0
         THEN Outcome(below, flag, cs, ll,
                      Done(r, Len(below) + 1, "IndexError"))
         ELSE Outcome(Detach(below, 1), flag, cs,
                      [ll EXCEPT ![1] = r.remaining],
                      Done(r, Len(below) + 1, "returned"))

\* the loop of the frame r has ended
Leave(below, r, flag, cs, ll) ==
    IF r.kind = "dispatch"
    THEN Outcome(below, flag, cs, ll, Done(r, Len(below) + 1, "returned"))
    ELSE \* unregister: self._listeners[-1] = remaining
         IF Len(ll) = 0
         THEN Outcome(below, flag, cs, ll,
                      Done(r, Len(below) + 1, "IndexError"))
         ELSE Outcome(Detach(below, Len(ll)), flag, cs,
                      [ll EXCEPT ![Len(ll)] = r.remaining],
                      Done(r, Len(below) + 1, "returned"))

Continued(below, r, flag, cs, ll, dn) ==
    IF r.entered
    THEN Enter(below, r, r.list[r.i], CallAt(r, r.i), cs, ll, dn)
    ELSE Leave(below, r, flag, cs, ll)

Continue(below, fr, flag, cs, ll, dn) ==
    Continued(below, RunLoop(fr, flag), flag, cs, ll, dn)

Become(o) ==
    /\ stack' = o.stack
    /\ called' = o.called
    /\ calls' = o.calls
    /\ library_listeners' = o.ll
    /\ done' = o.done

\* the frames left when an exception leaves the frame on top: it passes
\* through the loops and stops in listener code that called them
RECURSIVE Unwind(_)
Unwind(s) ==
    IF s = <<>> THEN s
    ELSE IF s[Len(s)].kind = "call" /\ s[Len(s)].pc = "body" THEN s
    ELSE Unwind(Front(s))

\* the engine, or listener code, is in control and the stack has room
CanCall ==
    \/ stack = <<>> /\ done = Nothing
    \/ InBody /\ Len(stack) + 2 <= MaxDepth /\ Top.nested < MaxNested

\* only the engine starts and ends suites
EngineCan == stack = <<>> /\ done = Nothing

\* the stack with the call that the code in control makes counted
Calling ==
    IF stack = <<>> THEN stack
    ELSE [stack EXCEPT ![Len(stack)].nested = @ + 1]

\* the records kept of the engine's current call
CallsNow == IF stack = <<>> THEN <<>> ELSE calls
LogNow == IF stack = <<>> THEN <<>> ELSE log

(***************************************************************************)
(* The event methods of Listeners and LibraryListeners.                    *)
(***************************************************************************)
Buses == {"Listeners", "LibraryListeners"}

\* self.listeners of a bus
ListenersOf(bus) ==
    IF bus = "Listeners" THEN listeners
    ELSE LibraryListeners_listeners(library_listeners)

\* start_suite ... close of Listeners; log_message filters by level, and
\* LibraryListeners.close does nothing
\* a truthiness that counts the facades of every frame
__bool__any_frame(bus) ==
    IF bus = "Listeners" THEN Len(listeners) > 0
    ELSE \E k \in 1..Len(library_listeners) : Len(library_listeners[k]) > 0

\* Listeners.__bool__: bool(self.listeners)
__bool__(bus) == Len(ListenersOf(bus)) > 0

\* event methods that filter message by the level as well
Skips_message(bus, c) ==
    \/ c.method \in {"log_message", "message"}
           /\ ~_is_logged(log_level[bus], c.args[1].level)
    \/ c.method = "close" /\ bus = "LibraryListeners"

\* the event methods that return before their loop
Skips(bus, c) ==
    \/ c.method = "log_message"
           /\ ~_is_logged(log_level[bus], c.args[1].level)
    \/ c.method = "close" /\ bus = "LibraryListeners"

FrameNow(bus, c) ==
    DispatchFrame(bus, c, ListenersOf(bus),
                  IF bus = "Listeners" THEN 0 ELSE Len(library_listeners))

Dispatch(bus, c) ==
    /\ CanCall
    /\ IF Skips(bus, c)
       THEN Become(Outcome(Calling, called, CallsNow, library_listeners,
                           Done(FrameNow(bus, c), Len(stack) + 1, "returned")))
       ELSE Become(Continue(Calling, FrameNow(bus, c), called, CallsNow,
                            library_listeners, Nothing))
    /\ log' = LogNow
    /\ UNCHANGED <<libraries, levels, log_level, listeners>>

\* the events that listener code sets off: it runs keywords and logs
ListenerCalls ==
    {c \in EventCalls[2] :
        /\ c.method \in {"start_keyword", "log_message"}
        /\ c.method = "log_message" => c.args[1].level = "INFO"}

EngineCall ==
    /\ stack = <<>>
    /\ \E bus \in Buses : \E c \in EventCalls[1] : Dispatch(bus, c)

ListenerCall ==
    /\ stack # <<>>
    /\ \E bus \in Buses : \E c \in ListenerCalls : Dispatch(bus, c)

\* Listeners.set_log_level
set_log_level(bus, level) ==
    /\ stack = <<>> /\ done = Nothing
    /\ log_level' = [log_level EXCEPT ![bus] = set_level(level)]
    /\ done' = [kind |-> "set_log_level", bus |-> bus,
                method |-> "set_log_level", args |-> <<level>>,
                list |-> <<>>, att |-> 0, invoked |-> <<>>, depth |-> 1,
                result |-> "returned"]
    /\ calls' = <<>> /\ log' = <<>>
    /\ UNCHANGED <<libraries, levels, listeners, library_listeners, called,
                   stack>>

SetLogLevel ==
    \E bus \in Buses : \E level \in levels : set_log_level(bus, level)

(***************************************************************************)
(* ListenerMethod.__call__ after self.method(args).                       *)
(***************************************************************************)
\* a __call__ without the finally clause
finally_missing(flag) == flag

\* finally: ListenerMethod.called = False
finally(flag) == FALSE

\* the listener method returns: finally, and the loop below runs on
Return ==
    /\ InBody
    /\ Become(Continue(Front(Front(stack)), stack[Len(stack) - 1],
                       finally(called), calls, library_listeners, Nothing))
    /\ UNCHANGED <<libraries, levels, log_level, listeners, log>>

\* the listener method raises an exception other than TimeoutError
Raise ==
    /\ InBody
    /\ stack' = [stack EXCEPT ![Len(stack)].pc = "error",
                              ![Len(stack)].nested = 0]
    /\ done' = Nothing
    /\ UNCHANGED <<libraries, levels, log_level, listeners, library_listeners, called, calls, log>>

\* an error record that names neither the method nor the listener
LOGGER_error_unnamed(lm) ==
    [level |-> "ERROR", method |-> "method", listener |-> "listener"]

\* LOGGER.error(f"Calling method '...' of listener '...' failed: ...")
LOGGER_error(lm) ==
    [level |-> "ERROR", method |-> lm.method, listener |-> lm.listener_name]

\* LOGGER.info(f"Details:...")
LOGGER_info(lm) ==
    [level |-> "INFO", method |-> "Details", listener |-> lm.listener_name]

\* the messages that LOGGER writes for a failed listener method
FailureMessage(level) == Message(3, level)

\* what LOGGER does with a message besides writing it: nothing, or it passes
\* the message to an event method of a bus
Unnotified == [bus |-> None, method |-> None, args |-> <<>>]

Notifications(level) ==
    {Unnotified} \cup {[bus |-> bus, method |-> method,
                  args |-> <<FailureMessage(level)>>] :
                    bus \in Buses, method \in {"message", "log_message"}}

\* the event method of a bus that LOGGER calls runs on the frames s
Notified(s, bus, c, flag, cs, ll) ==
    IF Skips(bus, c)
    THEN Outcome(s, flag, cs, ll, Done(FrameNow(bus, c), Len(s) + 1, "returned"))
    ELSE Continue(s, FrameNow(bus, c), flag, cs, ll, Nothing)

\* LOGGER.error(...) or LOGGER.info(...): the call returns nothing to
\* __call__, whatever the event method returned to LOGGER
Notify(n, s, flag, cs, ll) ==
    IF n = Unnotified THEN Outcome(s, flag, cs, ll, Nothing)
    ELSE [Notified(s, n.bus, [method |-> n.method, args |-> n.args],
                   flag, cs, ll) EXCEPT !.done = Nothing]

\* a __call__ that logs the error after its finally clause
LogError_after_finally ==
    /\ stack # <<>> /\ Top.kind = "call" /\ Top.pc = "error"
    /\ log' = Append(log, LOGGER_error(Top.lm))
    /\ \E n \in Notifications("ERROR") :
           Become(Notify(n, [stack EXCEPT ![Len(stack)].pc = "info"],
                         finally(called), calls, library_listeners))
    /\ UNCHANGED <<libraries, levels, log_level, listeners>>

\* except Exception: LOGGER.error(...), with ListenerMethod.called as the
\* try block left it
LogError ==
    /\ stack # <<>> /\ Top.kind = "call" /\ Top.pc = "error"
    /\ log' = Append(log, LOGGER_error(Top.lm))
    /\ \E n \in Notifications("ERROR") :
           Become(Notify(n, [stack EXCEPT ![Len(stack)].pc = "info"],
                         called, calls, library_listeners))
    /\ UNCHANGED <<libraries, levels, log_level, listeners>>

\* the end of __call__ once LOGGER.info has returned: finally, and the loop
\* below runs on
Logged(o) ==
    IF o.stack[Len(o.stack)].kind = "call"
          /\ o.stack[Len(o.stack)].pc = "logged"
    THEN Continue(Front(Front(o.stack)), o.stack[Len(o.stack) - 1],
                  finally(o.called), o.calls, o.ll, Nothing)
    ELSE o

\* LOGGER.info(...), finally, and the loop below runs on
LogInfo ==
    /\ stack # <<>> /\ Top.kind = "call" /\ Top.pc = "info"
    /\ log' = Append(log, LOGGER_info(Top.lm))
    /\ \E n \in Notifications("INFO") :
           Become(Logged(Notify(n, [stack EXCEPT ![Len(stack)].pc = "logged"],
                                called, calls, library_listeners)))
    /\ UNCHANGED <<libraries, levels, log_level, listeners>>

\* the listener method raises TimeoutError: finally, and the exception
\* leaves the loops below
\* the frames left when the exception has left ListenerMethod.__call__
propagate(s) == Unwind(Front(s))

\* an except clause that raises another exception
raise_other(exception) == "RuntimeError"

\* except TimeoutError: raise
raise_again(exception) == exception

\* an unregister that assigns `remaining` though a TimeoutError ends it
Timeout_assigning ==
    /\ InBody
    /\ stack' = propagate(stack)
    /\ done' = Done(stack[Len(propagate(stack)) + 1],
                    Len(propagate(stack)) + 1, raise_again("TimeoutError"))
    /\ called' = finally(called)
    /\ library_listeners' =
           IF stack[Len(propagate(stack)) + 1].kind = "unregister"
                 /\ Len(library_listeners) > 0
           THEN [library_listeners EXCEPT ![Len(library_listeners)] =
                    stack[Len(propagate(stack)) + 1].remaining]
           ELSE library_listeners
    /\ UNCHANGED <<libraries, levels, log_level, listeners, calls, log>>

\* a __call__ that lets the TimeoutError through with the flag still set
Timeout_flagged ==
    /\ InBody
    /\ stack' = propagate(stack)
    /\ done' = Done(stack[Len(propagate(stack)) + 1],
                    Len(propagate(stack)) + 1, raise_again("TimeoutError"))
    /\ called' = called
    /\ UNCHANGED <<libraries, levels, log_level, listeners, library_listeners, calls, log>>

Timeout ==
    /\ InBody
    /\ stack' = propagate(stack)
    /\ done' = Done(stack[Len(propagate(stack)) + 1],
                    Len(propagate(stack)) + 1, raise_again("TimeoutError"))
    /\ called' = finally(called)
    /\ UNCHANGED <<libraries, levels, log_level, listeners, library_listeners, calls, log>>

(***************************************************************************)
(* LibraryListeners: the scope stack.                                      *)
(***************************************************************************)
OpDone(kind, library, close, result) ==
    [kind |-> kind, bus |-> "LibraryListeners", method |-> kind,
     args |-> <<>>, library |-> library, close |-> close,
     list |-> <<>>, att |-> 0, invoked |-> <<>>, depth |-> Len(stack) + 1,
     result |-> result]

new_suite_scope ==
    /\ EngineCan
    /\ Len(library_listeners) < MaxScopes
    /\ library_listeners' = Append(library_listeners, <<>>)
    /\ done' = OpDone("new_suite_scope", None, FALSE, "returned")
    /\ calls' = CallsNow /\ log' = LogNow
    /\ UNCHANGED <<libraries, levels, log_level, listeners, called, stack>>

\* a pop that removes the first frame
discard_suite_scope_bottom ==
    /\ EngineCan
    /\ IF Len(library_listeners) = 0
       THEN /\ done' = OpDone("discard_suite_scope", None, FALSE, "IndexError")
            /\ UNCHANGED <<library_listeners, stack>>
       ELSE /\ library_listeners' = Tail(library_listeners)
            /\ stack' = Detach(stack, Len(library_listeners))
            /\ done' = OpDone("discard_suite_scope", None, FALSE, "returned")
    /\ calls' = CallsNow /\ log' = LogNow
    /\ UNCHANGED <<libraries, levels, log_level, listeners, called>>

discard_suite_scope ==
    /\ EngineCan
    /\ IF Len(library_listeners) = 0
       THEN /\ done' = OpDone("discard_suite_scope", None, FALSE, "IndexError")
            /\ UNCHANGED <<library_listeners, stack>>
       ELSE /\ library_listeners' = Front(library_listeners)
            /\ stack' = Detach(stack, Len(library_listeners))
            /\ done' = OpDone("discard_suite_scope", None, FALSE, "returned")
    /\ calls' = CallsNow /\ log' = LogNow
    /\ UNCHANGED <<libraries, levels, log_level, listeners, called>>

\* the facades of the listeners of a library
Imported ==
    [library \in Libraries |->
        _import_listeners(LibraryOf(library).listeners, library)]

\* a register that puts each listener in the frame as it is imported: the
\* first is in the frame when a later one fails
extend_as_imported(library, imp, n) ==
    IF imp.raised # None
    THEN /\ done' = OpDone("register", library, FALSE, imp.raised)
         /\ stack' = Calling
         /\ library_listeners' =
                IF n = 0 THEN library_listeners
                ELSE [library_listeners EXCEPT
                         ![n] = library_listeners[n] \o
                                _import_listeners(
                                    SubSeq(LibraryOf(library).listeners, 1, 1),
                                    library).imported]
    ELSE IF n = 0
    THEN /\ done' = OpDone("register", library, FALSE, "IndexError")
         /\ stack' = Calling
         /\ UNCHANGED library_listeners
    ELSE /\ Len(library_listeners[n]) + Len(imp.imported) <= MaxFrameLen
         /\ library_listeners' =
                [library_listeners EXCEPT
                    ![n] = library_listeners[n] \o imp.imported]
         /\ stack' = Extend(Calling, n, imp.imported)
         /\ done' = OpDone("register", library, FALSE, "returned")

\* a register that puts the listeners before those of the frame
extend_front(library, imp, n) ==
    IF imp.raised # None
    THEN /\ done' = OpDone("register", library, FALSE, imp.raised)
         /\ stack' = Calling
         /\ UNCHANGED library_listeners
    ELSE IF n = 0
    THEN /\ done' = OpDone("register", library, FALSE, "IndexError")
         /\ stack' = Calling
         /\ UNCHANGED library_listeners
    ELSE /\ Len(library_listeners[n]) + Len(imp.imported) <= MaxFrameLen
         /\ library_listeners' =
                [library_listeners EXCEPT
                    ![n] = imp.imported \o library_listeners[n]]
         /\ stack' = Extend(Calling, n, imp.imported)
         /\ done' = OpDone("register", library, FALSE, "returned")

\* self._listeners[-1].extend(listeners) on the n frames of the stack
extend(library, imp, n) ==
    IF imp.raised # None
    THEN /\ done' = OpDone("register", library, FALSE, imp.raised)
         /\ stack' = Calling
         /\ UNCHANGED library_listeners
    ELSE IF n = 0
    THEN /\ done' = OpDone("register", library, FALSE, "IndexError")
         /\ stack' = Calling
         /\ UNCHANGED library_listeners
    ELSE /\ Len(library_listeners[n]) + Len(imp.imported) <= MaxFrameLen
         /\ library_listeners' =
                [library_listeners EXCEPT
                    ![n] = library_listeners[n] \o imp.imported]
         /\ stack' = Extend(Calling, n, imp.imported)
         /\ done' = OpDone("register", library, FALSE, "returned")

register(library) ==
    /\ CanCall
    /\ extend(library, Imported[library], Len(library_listeners))
    /\ calls' = CallsNow /\ log' = LogNow
    /\ UNCHANGED <<libraries, levels, log_level, listeners, called>>

\* an unregister that makes a frame when the stack has none
unregister_creating(library, close) ==
    /\ CanCall
    /\ IF Len(library_listeners) = 0
       THEN /\ done' = OpDone("unregister", library, close, "returned")
            /\ calls' = CallsNow
            /\ stack' = Calling
            /\ library_listeners' = <<<<>>>>
            /\ UNCHANGED called
       ELSE Become(Continue(Calling,
                       UnregisterFrame(library, close,
                           library_listeners[Len(library_listeners)],
                           Len(library_listeners)),
                       called, CallsNow, library_listeners, Nothing))
    /\ log' = LogNow
    /\ UNCHANGED <<libraries, levels, log_level, listeners>>

unregister(library, close) ==
    /\ CanCall
    /\ IF Len(library_listeners) = 0
       THEN /\ done' = OpDone("unregister", library, close, "IndexError")
            /\ calls' = CallsNow
            /\ stack' = Calling
            /\ UNCHANGED <<library_listeners, called>>
       ELSE Become(Continue(Calling,
                       UnregisterFrame(library, close,
                           library_listeners[Len(library_listeners)],
                           Len(library_listeners)),
                       called, CallsNow, library_listeners, Nothing))
    /\ log' = LogNow
    /\ UNCHANGED <<libraries, levels, log_level, listeners>>

Register == \E library \in libraries : register(library)

Unregister ==
    \E library \in libraries : \E close \in BOOLEAN : unregister(library, close)

(***************************************************************************)
(* The specification.                                                      *)
(***************************************************************************)
\* LOGGER.error(f"Taking listener '...' into use failed: ...")
LOGGER_error_import(source) ==
    [level |-> "ERROR", method |-> "__init__", listener |-> source]

\* Listeners.__init__(listeners): what the construction of the bus from the
\* listeners `sources` leaves
Listeners_init(sources, imp) ==
    /\ listeners = imp.imported
    /\ log = [k \in 1..Len(imp.errors) |-> LOGGER_error_import(imp.errors[k])]
    /\ done = [kind |-> "__init__", bus |-> "Listeners",
               method |-> "__init__", args |-> <<>>, sources |-> sources,
               list |-> <<>>, att |-> 0, invoked |-> <<>>, depth |-> 1,
               result |-> IF imp.raised = None THEN "returned"
                          ELSE imp.raised]

\* the libraries of a run whose top-level bus has listeners
BasicLibraries == {"Library", "Quiet", "Broken"}

\* the libraries of a run whose top-level bus has none
ScopedLibraries == {"Library", "Other"}

Init ==
    /\ \E s \in {t \in Sources(MaxListeners) : Different(t)} :
           Listeners_init(s, _import_listeners(s, None))
    /\ libraries = BasicLibraries
    /\ levels = {"INFO"}
    /\ log_level = [bus \in Buses |-> "INFO"]
    /\ library_listeners = <<>>
    /\ called = FALSE
    /\ stack = <<>>
    /\ calls = <<>>

\* the engine goes on after a call of its own has ended: the records of
\* that call are dropped
EngineProceeds ==
    /\ stack = <<>>
    /\ done # Nothing
    /\ done' = Nothing
    /\ calls' = <<>>
    /\ log' = <<>>
    /\ UNCHANGED <<libraries, levels, log_level, listeners, library_listeners, called, stack>>

Next ==
    \/ EngineCall
    \/ ListenerCall
    \/ EngineProceeds
    \/ Return
    \/ Raise
    \/ LogError
    \/ LogInfo
    \/ Timeout
    \/ new_suite_scope
    \/ discard_suite_scope
    \/ Register
    \/ Unregister
    \/ SetLogLevel

Spec == Init /\ [][Next]_vars

\* the levels of the buses: a run that constructs the buses with any level
\* and sets any, with libraries that have no listeners
BusLevels == {"DEBUG", "INFO"}

InitLevels ==
    /\ \E s \in {t \in Sources(MaxListeners) : Different(t)} :
           Listeners_init(s, _import_listeners(s, None))
    /\ libraries = {"Quiet"}
    /\ levels = BusLevels
    /\ log_level \in [Buses -> BusLevels]
    /\ library_listeners = <<>>
    /\ called = FALSE
    /\ stack = <<>>
    /\ calls = <<>>

SpecLevels == InitLevels /\ [][Next]_vars

\* the scope stack alone: a run with no top-level listeners
InitScopes ==
    /\ Listeners_init(<<>>, _import_listeners(<<>>, None))
    /\ libraries = ScopedLibraries
    /\ levels = {"INFO"}
    /\ log_level = [bus \in Buses |-> "INFO"]
    /\ library_listeners = <<>>
    /\ called = FALSE
    /\ stack = <<>>
    /\ calls = <<>>

SpecScopes == InitScopes /\ [][Next]_vars

\* the libraries of a run that registers one library whose listeners can
\* be taken into use and one with a listener that cannot
ClosingLibraries == {"Library", "Broken"}

\* registering and unregistering alone: a run with no top-level listeners
InitLibrary ==
    /\ Listeners_init(<<>>, _import_listeners(<<>>, None))
    /\ libraries = ClosingLibraries
    /\ levels = {"INFO"}
    /\ log_level = [bus \in Buses |-> "INFO"]
    /\ library_listeners = <<>>
    /\ called = FALSE
    /\ stack = <<>>
    /\ calls = <<>>

SpecLibrary == InitLibrary /\ [][Next]_vars

(***************************************************************************)
(* Method resolution on its own: _get_method applied to listeners whose    *)
(* attributes are drawn from the spellings of a few event names.           *)
(***************************************************************************)
ResolveNames == {"start_suite", "end_for_iteration", "close"}

\* the attributes a listener may have for an event name
Spellings(name) ==
    CASE name = "start_suite" ->
           {"start_suite", "startSuite", "_start_suite", "_startSuite"}
      [] name = "end_for_iteration" ->
           {"end_for_iteration", "endForIteration", "_end_for_iteration",
            "_endForIteration"}
      [] OTHER -> {name, "_" \o name}

\* the listeners that have some of the attributes: each attribute is a
\* method, has a falsy value, or is absent
RawListeners(name) ==
    {[version |-> Undeclared,
      methods |-> {a \in Spellings(name) : v[a] = "method"},
      falsy   |-> {a \in Spellings(name) : v[a] = Falsy}] :
        v \in [Spellings(name) -> {"method", Falsy, None}]}

\* a call of ListenerFacade._get_method
GetMethodFrame(listener, library, name) ==
    [kind |-> "_get_method", listener |-> listener, library |-> library,
     name |-> name]

InitResolve ==
    /\ \E name \in ResolveNames : \E library \in {None, "Library"} :
       \E listener \in RawListeners(name) :
           stack = <<GetMethodFrame(listener, library, name)>>
    /\ libraries = {}
    /\ levels = {}
    /\ log_level = [bus \in Buses |-> "INFO"]
    /\ listeners = <<>>
    /\ library_listeners = <<>>
    /\ called = FALSE
    /\ calls = <<>>
    /\ log = <<>>
    /\ done = Nothing

GetMethod ==
    /\ stack # <<>> /\ Top.kind = "_get_method"
    /\ done' = [kind     |-> "_get_method",
                listener |-> Top.listener,
                library  |-> Top.library,
                name     |-> Top.name,
                result   |-> _get_method(Top.listener, "listener",
                                         Top.library, Top.name)]
    /\ stack' = <<>>
    /\ UNCHANGED <<libraries, levels, log_level, listeners, library_listeners, called, calls, log>>

SpecResolve == InitResolve /\ [][GetMethod]_vars

(***************************************************************************)
(* Taking a listener into use, for listeners that declare any version.     *)
(***************************************************************************)
\* the values of ROBOT_LISTENER_API_VERSION
Versions ==
    {Undeclared, PyNone,
     PyInt("1"), PyInt("2"), PyInt("3"), PyInt("4"), PyInt("23"),
     PyStr("2"), PyStr("3"), PyStr("1"), PyStr("two"), PyStr("2.0"),
     PyStr(""),
     PyFloat("2.0"), PyFloat("2.5"), PyFloat("3.0"), PyFloat("3.7"),
     PyFloat("1.5")}

\* a call of Listeners._import_listener with a listener object
ImportFrame(listener, name, library) ==
    [kind |-> "_import_listener", listener |-> listener, name |-> name,
     library |-> library]

InitImport ==
    /\ \E name \in ListenerNames : \E version \in Versions :
       \E library \in {None, "Library"} :
           stack = <<ImportFrame([Listener(name) EXCEPT !.version = version],
                                 name, library)>>
    /\ libraries = {}
    /\ levels = {}
    /\ log_level = [bus \in Buses |-> "INFO"]
    /\ listeners = <<>>
    /\ library_listeners = <<>>
    /\ called = FALSE
    /\ calls = <<>>
    /\ log = <<>>
    /\ done = Nothing

ImportListener ==
    /\ stack # <<>> /\ Top.kind = "_import_listener"
    /\ done' = [kind     |-> "_import_listener",
                version  |-> Top.listener.version,
                name     |-> Top.name,
                library  |-> Top.library,
                result   |-> take_into_use(Top.listener, Top.name,
                                           Top.library)]
    /\ stack' = <<>>
    /\ UNCHANGED <<libraries, levels, log_level, listeners, library_listeners, called, calls,
                   log>>

SpecImport == InitImport /\ [][ImportListener]_vars

(***************************************************************************)
(* The methods of a facade, called one at a time.                          *)
(***************************************************************************)
\* a call of a method of the facade of a listener
FacadeFrame(imported, c) ==
    [kind |-> "facade", facade |-> imported.facade, method |-> c.method,
     args |-> c.args]

InitFacade ==
    /\ \E name \in ListenerNames \ {"UnsupportedVersion"} :
       \E library \in {None, "Library"} :
       \E c \in EventCallsOn(1) \cup EventCallsOn(2) \cup EventCallsOn(3) :
           stack = <<FacadeFrame(_import_listener(name, library), c)>>
    /\ libraries = {}
    /\ levels = {}
    /\ log_level = [bus \in Buses |-> "INFO"]
    /\ listeners = <<>>
    /\ library_listeners = <<>>
    /\ called = FALSE
    /\ calls = <<>>
    /\ log = <<>>
    /\ done = Nothing

FacadeMethod ==
    /\ stack # <<>> /\ Top.kind = "facade"
    /\ done' = [kind   |-> "facade",
                facade |-> Top.facade,
                method |-> Top.method,
                args   |-> Top.args,
                call   |-> FacadeCall(Top.facade, Top.method, Top.args)]
    /\ stack' = <<>>
    /\ UNCHANGED <<libraries, levels, log_level, listeners,
                   library_listeners, called, calls, log>>

SpecFacade == InitFacade /\ [][FacadeMethod]_vars

(***************************************************************************)
(* The properties.                                                         *)
(***************************************************************************)
\* the facade method calls of a loop that visits the whole list
AllInvoked(list, method, args) ==
    [k \in 1..Len(list) |-> Listeners_invoke(list[k], method, args)]

IsPrefix(s, t) == Len(s) <= Len(t) /\ SubSeq(t, 1, Len(s)) = s

\* the positions of the frames of ListenerMethod.__call__ on the stack
CallFrames == {k \in 1..Len(stack) : stack[k].kind = "call"}

\* a call of an event method has ended
Dispatched(bus) == done.kind = "dispatch" /\ done.bus = bus

\* the listener method that a facade method call reaches, None when none
Reaches(invoke) ==
    FacadeCall(invoke.facade, invoke.method, invoke.args).lm.method

\* the record of the listener method that a facade method call makes
Delivery(invoke) ==
    CallRecord(invoke.facade,
               FacadeCall(invoke.facade, invoke.method, invoke.args))

IsCalled(record) == record.method # None

\* the listener methods that a sequence of facade method calls enters when
\* each is made with the flag clear
Delivered(invoked) ==
    SelectSeq([k \in 1..Len(invoked) |-> Delivery(invoked[k])], IsCalled)

\* a log_message below the level of the bus
BelowLevel(bus, method, args) ==
    /\ method = "log_message"
    /\ args[1].level = "DEBUG"
    /\ log_level[bus] = "INFO"

\* C1 (as the code has it): a call of an event method of Listeners that
\* returns has called the same-named facade method of every facade once, in
\* the order of the list and with the arguments it was given, unless it is a
\* log_message below the level of the bus, which calls none; a call that a
\* TimeoutError of a listener method ends has called the facades up to that
\* listener, in order; with no listeners no listener code runs.
C1_Delivery ==
    Dispatched("Listeners") =>
        /\ done.list = listeners
        /\ IF BelowLevel(done.bus, done.method, done.args)
           THEN done.invoked = <<>> /\ done.result = "returned"
           ELSE IF done.result = "TimeoutError"
           THEN /\ done.invoked # <<>>
                /\ IsPrefix(done.invoked,
                            AllInvoked(listeners, done.method, done.args))
           ELSE /\ done.result = "returned"
                /\ done.invoked = AllInvoked(listeners, done.method, done.args)
        /\ (listeners = <<>> /\ done.depth = 1) => calls = <<>>

\* C1 as stated: every call of an event method of Listeners calls the facade
\* method of all the facades.
C1_Original ==
    Dispatched("Listeners") =>
        done.invoked = AllInvoked(listeners, done.method, done.args)

C1_Witness ==
    /\ stack = <<>>
    /\ Dispatched("Listeners")
    /\ done.result = "returned"
    /\ Len(listeners) >= 2
    /\ done.invoked = AllInvoked(listeners, done.method, done.args)
    /\ Len(calls) = Len(listeners)

\* C2: at most one listener method is running at any time, whatever the
\* listener methods call.
C2_OneBody == Cardinality(CallFrames) <= 1

\* listener code has set off an event that a listener has a method for
C2_Witness ==
    /\ InBody
    /\ Dispatched("LibraryListeners")
    /\ done.depth > 1
    /\ \E k \in 1..Len(done.invoked) : Reaches(done.invoked[k]) # None

\* every facade the buses can hold
KnownFacades ==
    {_import_listener(l, None).facade :
        l \in {t \in TopListeners : _import_listener(t, None).error = None}}
        \cup UNION {{Imported[library].imported[k] :
                        k \in 1..Len(Imported[library].imported)} :
                    library \in Libraries}

\* the listener method calls that the events of listener code would make
NestedDeliveries ==
    {Delivery(Listeners_invoke(f, c.method, c.args)) :
        f \in KnownFacades, c \in ListenerCalls}

\* an event of listener code calls every facade method and returns; no
\* listener method is entered for it, then or later
C3_Dropped ==
    /\ \A k \in 1..Len(calls) : calls[k] \notin NestedDeliveries
    /\ (InBody /\ done.kind = "dispatch") =>
           /\ done.result = "returned"
           /\ done.invoked = AllInvoked(done.list, done.method, done.args)
           /\ calls[Len(calls)] =
                  CallRecord(Top.facade, [lm |-> Top.lm, args |-> Top.args])

\* the first position of a list whose facade method reaches a listener
\* method, 0 when there is none
FirstReached(list, method, args) ==
    least({k \in 1..Len(list) :
              Reaches(Listeners_invoke(list[k], method, args)) # None})

\* an event of the engine enters the first listener method there is for it
C3_Resumed ==
    (stack = <<>> /\ done = Nothing) =>
        /\ stack' # <<>> =>
               /\ called'
               /\ stack'[1].kind = "dispatch" =>
                      stack'[1].i = FirstReached(stack'[1].list,
                                                 stack'[1].method,
                                                 stack'[1].args)
        /\ (stack' = <<>> /\ done'.kind = "dispatch"
                /\ ~BelowLevel(done'.bus, done'.method, done'.args)
                /\ ~(done'.bus = "LibraryListeners" /\ done'.method = "close")) =>
               FirstReached(done'.list, done'.method, done'.args) = 0

\* C3: an event dispatched while a listener method runs is dropped for
\* every listener: the call returns, no listener method is entered for it,
\* and none is entered for it later; the engine's next event is delivered
\* again, starting with the first listener that has a method for it.
C3_DroppedThenResumed == []C3_Dropped /\ [][C3_Resumed]_vars

C3_Witness ==
    /\ InBody
    /\ Dispatched("Listeners")
    /\ done.depth > 1
    /\ \E k \in 1..Len(done.invoked) : Reaches(done.invoked[k]) # None

\* C4: the flag is set exactly while a ListenerMethod.__call__ that set it
\* has not ended: it is clear after the call returned, after it logged a
\* listener's exception and after it let a TimeoutError through, and a
\* dropped call inside a listener method leaves it set.
C4_FlagCleared == called = (CallFrames # {})

\* a listener's exception was logged, a TimeoutError ended the event
C4_Witness ==
    /\ stack = <<>>
    /\ done.kind \in {"dispatch", "unregister"}
    /\ done.result = "TimeoutError"
    /\ log # <<>>
    /\ ~called

\* every ERROR record of a listener method names a method that was called
\* and is followed by the INFO record of the details
C5_Logged ==
    \A j \in 1..Len(log) :
        IF log[j].method = "__init__" THEN log[j].level = "ERROR"
        ELSE IF log[j].level = "ERROR"
        THEN /\ \E k \in 1..Len(calls) :
                   /\ calls[k].method = log[j].method
                   /\ calls[k].listener = log[j].listener
             /\ IF j < Len(log)
                THEN log[j + 1].level = "INFO" /\ log[j + 1].method = "Details"
                ELSE stack # <<>> /\ Top.kind = "call" /\ Top.pc = "info"
        ELSE j > 1 /\ log[j - 1].level = "ERROR"

\* the exception of a listener method is logged and the loop goes on: it
\* enters a later listener, or visits the rest of the list and returns
C5_Caught ==
    (stack # <<>> /\ Top.kind = "call" /\ Top.pc # "body") =>
        IF Top.pc = "error"
        THEN /\ Len(log') = Len(log) + 1
             /\ log'[Len(log')].level = "ERROR"
             /\ log'[Len(log')].method = Top.lm.method
             /\ log'[Len(log')].listener = Top.facade.name
             /\ stack' = [stack EXCEPT ![Len(stack)].pc = "info"]
        ELSE /\ Len(log') = Len(log) + 1
             /\ log'[Len(log')].level = "INFO"
             /\ IF stack' = <<>>
                THEN /\ done'.result = "returned"
                     /\ done'.kind = "dispatch" =>
                            done'.invoked =
                                AllInvoked(done'.list, done'.method, done'.args)
                ELSE /\ stack'[Len(stack')].kind = "call"
                     /\ stack'[Len(stack')].pc = "body"
                     /\ stack'[1].i > stack[1].i
                     /\ stack'[1].method = stack[1].method
                     /\ stack'[1].args = stack[1].args

\* C5: an exception of a listener method other than TimeoutError is caught
\* and logged, as an ERROR record naming the method and the listener and an
\* INFO record of the details; the event method returns normally and the
\* listeners after the failing one receive the event.
C5_Swallowed == []C5_Logged /\ [][C5_Caught]_vars

\* the first listener failed and the second received the event
C5_Witness ==
    /\ stack = <<>>
    /\ Dispatched("Listeners")
    /\ done.result = "returned"
    /\ Len(calls) >= 2
    /\ Len(log) = 2
    /\ log[1].listener = calls[1].listener
    /\ log[1].method = calls[1].method

\* a call that a TimeoutError ended is a call of the engine
C6_Reached ==
    (done # Nothing /\ done.result \notin {"returned", "IndexError", "DataError"})
        => /\ done.result = "TimeoutError"
           /\ stack = <<>>
           /\ done.depth = 1
           /\ done.kind \in {"dispatch", "unregister"}

\* the step that ends a listener method and the engine's call without
\* returning writes no log record
C6_NotLogged ==
    (InBody /\ stack' = <<>> /\ done'.result # "returned") =>
        /\ done'.result = "TimeoutError"
        /\ log' = log
        /\ done'.method = stack[1].method
        /\ done'.args = stack[1].args

\* C6: a TimeoutError of a listener method leaves ListenerMethod.__call__,
\* the facade method and the event method as it is and reaches the caller
\* of the event method; no log record is written for it.
C6_Propagated == []C6_Reached /\ [][C6_NotLogged]_vars

C6_Witness ==
    /\ stack = <<>>
    /\ Dispatched("Listeners")
    /\ done.result = "TimeoutError"
    /\ Len(calls) = 1
    /\ log = <<>>

\* the camelCase spelling of the names resolved, None for a name without '_'
CamelCase(name) ==
    CASE name = "start_suite" -> "startSuite"
      [] name = "end_for_iteration" -> "endForIteration"
      [] OTHER -> None

Unprefixed(name) ==
    IF CamelCase(name) = None THEN <<name>> ELSE <<name, CamelCase(name)>>

\* the candidates in the order snake_case, camelCase, _snake_case, _camelCase
Candidates(name, library) ==
    IF library = None THEN Unprefixed(name)
    ELSE Unprefixed(name)
         \o [k \in 1..Len(Unprefixed(name)) |-> "_" \o Unprefixed(name)[k]]

\* the first candidate among the attributes, None when there is none
FirstAmong(candidates, attributes) ==
    IF least({k \in 1..Len(candidates) : candidates[k] \in attributes}) = 0
    THEN None
    ELSE candidates[least({k \in 1..Len(candidates) :
                              candidates[k] \in attributes})]

\* C7 (as the code has it): _get_method tries the snake_case name, the
\* camelCase name when the name has an underscore and, for a listener of a
\* library only, the two names with an underscore before them; it wraps the
\* first candidate whose attribute has a truthy value, passing over absent
\* attributes and attributes with a falsy value, and wraps None when there
\* is no such candidate.
C7_Resolution ==
    done.kind = "_get_method" =>
        /\ done.result.method =
               FirstAmong(Candidates(done.name, done.library),
                          done.listener.methods)
        /\ done.result.listener_name = "listener"

\* C7 as stated: the first candidate that exists as an attribute is wrapped.
C7_Original ==
    done.kind = "_get_method" =>
        done.result.method =
            getattr(done.listener,
                    FirstAmong(Candidates(done.name, done.library),
                               done.listener.methods \cup done.listener.falsy))

\* a listener of a library with a falsy end_for_iteration attribute and an
\* _endForIteration method
C7_Witness ==
    /\ done.kind = "_get_method"
    /\ done.library # None
    /\ done.listener.falsy = {"end_for_iteration"}
    /\ done.listener.methods = {"_endForIteration"}
    /\ done.result.method = "_endForIteration"

\* the facade method calls that the loop on the stack, or the call that
\* ended, has made
InvokedNow == IF stack # <<>> THEN stack[1].invoked ELSE done.invoked

\* C8: a ListenerMethod is falsy exactly when it wraps None, whatever the
\* flag is; calling a falsy one runs no listener code and writes no log
\* record, and calling a truthy one with the flag clear calls the wrapped
\* method once, with the arguments given.
C8_GuardedCall ==
    (stack # <<>> \/ done.kind \in {"dispatch", "unregister"}) =>
        /\ calls = Delivered(InvokedNow)
        /\ Len(log) <= 2 * Len(calls)
        /\ \A k \in 1..Len(InvokedNow) :
               ListenerMethod_bool(
                   FacadeCall(InvokedNow[k].facade, InvokedNow[k].method,
                              InvokedNow[k].args).lm)
                   <=> Reaches(InvokedNow[k]) # None
        /\ CallFrames # {} =>
               /\ ListenerMethod_bool(Top.lm)
               /\ Top.lm.method = Reaches(InvokedNow[Len(InvokedNow)])
               /\ calls[Len(calls)].args = Top.args

\* of two listeners one has no method for the event and one was called
C8_Witness ==
    /\ stack = <<>>
    /\ Dispatched("Listeners")
    /\ done.result = "returned"
    /\ Len(done.invoked) = 2
    /\ Len(calls) = 1
    /\ log = <<>>

\* the generic method of a specialized keyword method
GenericOf(method) ==
    IF method \in {"start_user_keyword", "start_library_keyword",
                   "start_invalid_keyword"}
    THEN "start_keyword" ELSE "end_keyword"

\* the listener method a facade has for a name, None when it has none
Hook(f, name) ==
    Resolved[f.listener][IF f.library = None THEN None ELSE "library"][name]

\* the call a ListenerV3Facade makes for a specialized keyword method
C9_Call(f, method, args) ==
    IF Hook(f, method) # None
    THEN [listener |-> f.listener, library |-> f.library,
          method |-> Hook(f, method), args |-> args]
    ELSE [listener |-> f.listener, library |-> f.library,
          method |-> Hook(f, GenericOf(method)),
          args |-> <<args[1], args[3]>>]

\* the same with the arguments forwarded as they are
C9_CallSameArgs(f, method, args) ==
    IF Hook(f, method) # None
    THEN C9_Call(f, method, args)
    ELSE [C9_Call(f, method, args) EXCEPT !.args = args]

\* the engine's call of a specialized keyword method has ended
C9_Ended ==
    /\ stack = <<>>
    /\ done.kind = "dispatch"
    /\ done.method \in ThreeArgMethods
    /\ done.result = "returned"

\* C9 (as the code has it): for a specialized keyword method a
\* ListenerV3Facade calls the listener's specialized method with (data,
\* implementation, result) when the listener has it; otherwise it calls the
\* generic start_keyword or end_keyword with (data, result); a listener
\* that has neither is not called.
C9_Fallback ==
    C9_Ended =>
        \A k \in 1..Len(done.list) :
            done.list[k].class = "ListenerV3Facade" =>
                (C9_Call(done.list[k], done.method, done.args).method # None
                    <=> \E j \in 1..Len(calls) :
                            calls[j] = C9_Call(done.list[k], done.method,
                                               done.args))

\* C9 as stated: the generic method is called with the same arguments.
C9_Original ==
    C9_Ended =>
        \A k \in 1..Len(done.list) :
            done.list[k].class = "ListenerV3Facade" =>
                (C9_Call(done.list[k], done.method, done.args).method # None
                    <=> \E j \in 1..Len(calls) :
                            calls[j] = C9_CallSameArgs(done.list[k],
                                                       done.method, done.args))

\* a listener without the specialized method got the generic call
C9_Witness ==
    /\ C9_Ended
    /\ \E k \in 1..Len(done.list) :
           /\ done.list[k].class = "ListenerV3Facade"
           /\ Hook(done.list[k], done.method) = None
           /\ \E j \in 1..Len(calls) :
                  /\ calls[j].listener = done.list[k].listener
                  /\ Len(calls[j].args) = 2

\* C10: an event method of LibraryListeners calls the facades of the frame
\* on top of the stack, in their order in the frame, and no facade of a
\* frame below it; with no frame it calls none.
C10_TopFrame ==
    /\ \A k \in 1..Len(stack) :
           (stack[k].kind = "dispatch" /\ stack[k].att > 0) =>
               /\ stack[k].att = Len(library_listeners)
               /\ stack[k].list = library_listeners[stack[k].att]
    /\ Dispatched("LibraryListeners") =>
           /\ IsPrefix(done.invoked,
                       AllInvoked(done.list, done.method, done.args))
           /\ (done.result = "returned"
                   /\ done.method # "close"
                   /\ ~BelowLevel(done.bus, done.method, done.args)) =>
                  done.invoked = AllInvoked(done.list, done.method, done.args)
           /\ Len(library_listeners) = 0 => done.list = <<>>
           /\ done.att > 0 =>
                  /\ done.att = Len(library_listeners)
                  /\ done.list = library_listeners[done.att]

\* the frame below has facades, the frame on top has none: none is called
C10_Witness ==
    /\ stack = <<>>
    /\ Dispatched("LibraryListeners")
    /\ done.method = "start_keyword"
    /\ Len(library_listeners) = 2
    /\ library_listeners[1] # <<>>
    /\ library_listeners[2] = <<>>
    /\ done.invoked = <<>>
    /\ calls = <<>>

\* the frames of s that t has as well, unchanged
SameFrames(s, t, n) == \A k \in 1..n : k <= Len(t) /\ t[k] = s[k]

C11_Step ==
    /\ (done = Nothing /\ done'.kind = "new_suite_scope") =>
           /\ Len(library_listeners') = Len(library_listeners) + 1
           /\ library_listeners'[Len(library_listeners')] = <<>>
           /\ SameFrames(library_listeners, library_listeners',
                         Len(library_listeners))
    /\ (done = Nothing /\ done'.kind = "discard_suite_scope"
            /\ done'.result = "returned") =>
           /\ Len(library_listeners') = Len(library_listeners) - 1
           /\ SameFrames(library_listeners, library_listeners',
                         Len(library_listeners) - 1)
    /\ Len(library_listeners') = Len(library_listeners) =>
           SameFrames(library_listeners, library_listeners',
                      Len(library_listeners) - 1)

\* C11: new_suite_scope puts one empty frame on top of the stack and leaves
\* the frames that were there as they were; discard_suite_scope removes the
\* frame on top and leaves the frames below it as they were; no other step
\* changes a frame below the top one, so that after a push, registrations
\* and unregistrations, and the pop, the stack is what it was before.
C11_Frames == [][C11_Step]_vars

\* the frame on top was discarded and the frame below it, with its
\* facades, is the top frame again
C11_Witness ==
    /\ done.kind = "discard_suite_scope"
    /\ done.result = "returned"
    /\ Len(library_listeners) = 1
    /\ library_listeners[1] # <<>>

\* the facades of a list that are not of the library
OfOthers(list, library) == SelectSeq(list, LAMBDA f : f.library # library)

C12_Step ==
    /\ (done' # done /\ done'.kind = "unregister"
            /\ done'.result = "returned") =>
           /\ Len(library_listeners') = Len(library_listeners)
           /\ SameFrames(library_listeners, library_listeners',
                         Len(library_listeners) - 1)
           /\ library_listeners'[Len(library_listeners')] =
                  OfOthers(done'.list, done'.library)
           /\ done'.depth = Len(stack) + 1 =>
                  done'.list = library_listeners[Len(library_listeners)]
    /\ (Len(stack') = Len(stack) + 2
            /\ stack'[Len(stack) + 1].kind = "unregister") =>
           stack'[Len(stack) + 1].list =
               library_listeners[Len(library_listeners)]
    /\ (done = Nothing /\ done'.kind = "discard_suite_scope"
            /\ done'.result = "returned") =>
           library_listeners' =
               SubSeq(library_listeners, 1, Len(library_listeners) - 1)

\* C12: unregister(library) leaves in the top frame the facades of the list
\* it went through whose library is not the given one, in their order (the
\* list is the top frame as it was when no listener code ran in between),
\* and leaves every frame below as it was, whatever it holds; discarding
\* the frame removes the frame with all the facades it holds.
C12_Unregister == [][C12_Step]_vars

\* the Library was unregistered from a top frame that held the facade of
\* Other before its facades; the frame below still holds its facades
C12_Witness ==
    /\ stack = <<>>
    /\ done.kind = "unregister"
    /\ done.result = "returned"
    /\ done.library = "Library"
    /\ Len(library_listeners) = 2
    /\ \E k \in 1..Len(library_listeners[1]) :
           library_listeners[1][k].library = "Library"
    /\ Len(done.list) = 4
    /\ done.list[1].library = "Other"
    /\ library_listeners[2] = <<done.list[1]>>

\* the listeners that cannot be taken into use: one declares version 1,
\* one cannot be imported
Fails(source) == source \in {"UnsupportedVersion", "Missing"}

Succeeds(source) == ~Fails(source)

C13_TopLevel ==
    done.kind = "__init__" =>
        /\ done.result = "returned"
        /\ [k \in 1..Len(listeners) |-> listeners[k].name]
               = SelectSeq(done.sources, Succeeds)
        /\ \A k \in 1..Len(listeners) : listeners[k].library = None
        /\ [k \in 1..Len(log) |-> log[k].listener]
               = SelectSeq(done.sources, Fails)
        /\ \A k \in 1..Len(log) :
               log[k].level = "ERROR" /\ log[k].method = "__init__"

C13_Library ==
    done.kind = "register" =>
        /\ done.result = "DataError"
               <=> \E k \in 1..Len(LibraryOf(done.library).listeners) :
                       Fails(LibraryOf(done.library).listeners[k])
        /\ \A k \in 1..Len(log) : log[k].method # "__init__"

\* C13: the construction of Listeners returns, holds the facades of the
\* listeners that could be taken into use, in the order given, and has
\* logged an error for each of the others; register of a library with a
\* listener that cannot be taken into use raises DataError and logs none.
C13_ImportFailure == C13_TopLevel /\ C13_Library

\* a bus made from a listener that fails and one that does not
C13_Witness ==
    /\ done.kind = "__init__"
    /\ Len(done.sources) = 2
    /\ Len(listeners) = 1
    /\ Len(log) = 1
    /\ Fails(done.sources[1])

\* the declared versions that are the number n
Declares(n) ==
    IF n = 2 THEN {PyInt("2"), PyStr("2"), PyFloat("2.0")}
    ELSE {PyInt("3"), PyStr("3"), PyFloat("3.0")}

\* C14 as stated: taking a listener into use gives a ListenerV2Facade iff
\* the listener declares version 2, a ListenerV3Facade iff it declares 3 or
\* declares none, and raises DataError for every other declared version.
C14_Original ==
    done.kind = "_import_listener" =>
        IF done.version \in Declares(2)
        THEN done.result.error = None
             /\ done.result.facade.class = "ListenerV2Facade"
        ELSE IF done.version \in Declares(3) \cup {Undeclared}
        THEN done.result.error = None
             /\ done.result.facade.class = "ListenerV3Facade"
        ELSE done.result.error = "DataError"

\* a message of the level passes the minimum level
Passes(level, minimum) ==
    <<minimum, level>>
        \in {<<"DEBUG", "DEBUG">>, <<"DEBUG", "INFO">>, <<"INFO", "INFO">>}

C15_Delivered ==
    (done.kind = "dispatch" /\ done.result = "returned"
        /\ done.method \in {"log_message", "message"}) =>
        /\ done.list = ListenersOf(done.bus)
        /\ done.invoked =
               IF done.method = "message"
                  \/ Passes(done.args[1].level, log_level[done.bus])
               THEN AllInvoked(done.list, done.method, done.args)
               ELSE <<>>

C15_Step ==
    IF done = Nothing /\ done'.kind = "set_log_level"
    THEN /\ log_level'[done'.bus] = done'.args[1]
         /\ \A bus \in Buses \ {done'.bus} : log_level'[bus] = log_level[bus]
         /\ calls' = <<>> /\ stack' = <<>>
         /\ UNCHANGED <<listeners, library_listeners, called>>
    ELSE log_level' = log_level

\* C15: a log_message that returns has called log_message of every facade
\* of the bus when the level of the message passes the level of the bus,
\* and of none otherwise; a message event calls every facade whatever the
\* level; the level of a bus is the one it was constructed with until
\* set_log_level gives it another, and set_log_level changes nothing else
\* and calls no listener.
C15_Filter == [](C15_Delivered) /\ [][C15_Step]_vars

\* a DEBUG message was delivered to the listeners of a bus at level DEBUG
\* while the other bus is at INFO
C15_Witness ==
    /\ stack = <<>>
    /\ done.kind = "dispatch"
    /\ done.bus = "Listeners"
    /\ done.method = "log_message"
    /\ done.args[1].level = "DEBUG"
    /\ log_level = [bus \in Buses |->
                       IF bus = "Listeners" THEN "DEBUG" ELSE "INFO"]
    /\ Len(done.invoked) = 2
    /\ Len(calls) > 0

\* C16: Listeners is truthy iff it holds a facade, which is iff one of the
\* listeners it was constructed from could be taken into use;
\* LibraryListeners is truthy iff it has a frame and the frame on top holds
\* a facade, whatever the frames below hold.
C16_Truthiness ==
    /\ __bool__("Listeners") <=> listeners # <<>>
    /\ done.kind = "__init__" =>
           (__bool__("Listeners")
               <=> \E k \in 1..Len(done.sources) : Succeeds(done.sources[k]))
    /\ __bool__("LibraryListeners")
           <=> /\ library_listeners # <<>>
               /\ library_listeners[Len(library_listeners)] # <<>>

\* the frame below holds facades, the frame on top holds none:
\* LibraryListeners is falsy, and Listeners with a listener is truthy
C16_Witness ==
    /\ Len(library_listeners) = 2
    /\ library_listeners[1] # <<>>
    /\ library_listeners[2] = <<>>
    /\ ~__bool__("LibraryListeners")
    /\ __bool__("Listeners")

\* the control structures and body items other than keywords
ItemKinds ==
    {"for", "for_iteration", "while", "while_iteration", "if", "if_branch",
     "try", "try_branch", "var", "break", "continue", "return", "error"}

IsStart(method) == SubSeq(method, 1, 6) = "start_"

\* the keyword method of a listener that stands for a body item event
KeywordHook(f, method) ==
    Hook(f, IF IsStart(method) THEN "start_keyword" ELSE "end_keyword")

\* the listener method calls made on the listener of a facade
CallsOf(f) == {j \in 1..Len(calls) : calls[j].listener = f.listener}

\* an engine's call of a body item event has returned
C17_Ended ==
    /\ stack = <<>>
    /\ done.kind = "dispatch"
    /\ done.result = "returned"
    /\ \E kind \in ItemKinds : done.method \in {"start_" \o kind, "end_" \o kind}

SuiteKeys ==
    {"id", "doc", "metadata", "starttime", "longname", "tests", "suites",
     "totaltests", "source"}

TestKeys ==
    {"id", "doc", "tags", "lineno", "starttime", "longname", "source",
     "template", "originalname"}

KeywordKeys ==
    {"doc", "lineno", "type", "status", "starttime", "source", "kwname",
     "libname", "args", "assign", "tags"}

\* the keys that a kind of body item adds
KindKeys(kind, result) ==
    CASE kind = "for" ->
           {"variables", "flavor", "values"}
               \cup (IF flavor(result) = "IN ENUMERATE" THEN {"start"}
                     ELSE IF flavor(result) = "IN ZIP" THEN {"fill", "mode"}
                     ELSE {})
      [] kind = "for_iteration" -> {"variables"}
      [] kind = "while" ->
           {"condition", "limit", "on_limit", "on_limit_message"}
      [] kind = "if_branch" ->
           IF branch_type(result, "start_if_branch") = "ELSE" THEN {}
           ELSE {"condition"}
      [] kind = "try_branch" ->
           IF branch_type(result, "start_try_branch") = "EXCEPT"
           THEN {"patterns", "pattern_type", "variable"} ELSE {}
      [] kind = "return" -> {"values"}
      [] kind = "var" -> {"name", "value", "scope"}
      [] OTHER -> {}

KindOf(method) ==
    IF IsStart(method) THEN SubSeq(method, 7, Len(method))
    ELSE SubSeq(method, 5, Len(method))

StartKeys(method, result) ==
    CASE KindOf(method) = "suite" -> SuiteKeys
      [] KindOf(method) = "test" -> TestKeys
      [] KindOf(method) = "keyword" -> KeywordKeys
      [] OTHER -> KeywordKeys \cup KindKeys(KindOf(method), result)

EndOnlyKeys(method) ==
    CASE KindOf(method) = "suite" ->
           {"endtime", "elapsedtime", "status", "message", "statistics"}
      [] KindOf(method) = "test" ->
           {"endtime", "elapsedtime", "status", "message"}
      [] OTHER -> {"endtime", "elapsedtime"}

\* a method of a ListenerV2Facade for a suite, a test, a keyword or a body
\* item has been called
C18_Called ==
    /\ done.kind = "facade"
    /\ done.facade.class = "ListenerV2Facade"
    /\ done.method \in TwoArgMethods

\* C18: the mapping that a ListenerV2Facade passes for a start event of a
\* suite, a test, a keyword or a body item has the documented keys of the
\* family (for a body item those of a keyword and those of its kind) and
\* none of the end-only keys; the mapping of the end event with the same
\* objects has the keys of the start call and the end-only keys of the
\* family.
C18_KeySets ==
    C18_Called =>
        /\ Len(done.call.args) = 2
        /\ IF IsStart(done.method)
           THEN /\ DOMAIN done.call.args[2]
                       = StartKeys(done.method, done.args[2])
                /\ DOMAIN done.call.args[2] \cap EndOnlyKeys(done.method) = {}
           ELSE DOMAIN done.call.args[2]
                    = DOMAIN FacadeCall(done.facade,
                                        "start_" \o KindOf(done.method),
                                        done.args).args[2]
                        \cup EndOnlyKeys(done.method)

\* end_suite of a listener with version 2 got the mapping with statistics
C18_Witness ==
    /\ C18_Called
    /\ done.method = "end_suite"
    /\ done.call.lm.method = "endSuite"
    /\ "statistics" \in DOMAIN done.call.args[2]
    /\ "id" \in DOMAIN done.call.args[2]

\* the facades of the listeners of a library, in the order it declares them
FacadesOf(library) ==
    [k \in 1..Len(LibraryOf(library).listeners) |->
        [class    |-> "ListenerV3Facade",
         listener |-> LibraryOf(library).listeners[k],
         name     |-> LibraryOf(library).listeners[k],
         library  |-> library]]

C19_Step ==
    /\ (done' # done /\ done'.kind = "register") =>
           IF done'.result = "returned"
           THEN /\ Len(library_listeners') = Len(library_listeners)
                /\ SameFrames(library_listeners, library_listeners',
                              Len(library_listeners) - 1)
                /\ library_listeners'[Len(library_listeners')] =
                       library_listeners[Len(library_listeners)]
                           \o FacadesOf(done'.library)
           ELSE library_listeners' = library_listeners
    /\ (done = Nothing /\ done'.kind = "new_suite_scope") =>
           /\ ListenersOf("LibraryListeners")' = <<>>
           /\ SubSeq(library_listeners', 1, Len(library_listeners))
                  = library_listeners
    /\ (done = Nothing /\ done'.kind = "discard_suite_scope"
            /\ done'.result = "returned") =>
           /\ Len(library_listeners') = Len(library_listeners) - 1
           /\ library_listeners' \o <<library_listeners[Len(library_listeners)]>>
                  = library_listeners

\* C19: register(library) puts the facades of the library's listeners, in
\* the order the library declares them, after the facades of the top frame
\* and changes no other frame; the facades are in that frame only: after a
\* push the bus has the listeners of the new, empty frame, and a discard
\* removes the frame with them.
C19_Register == [][C19_Step]_vars

\* the Library was registered in a second frame after Other
C19_Witness ==
    /\ stack = <<>>
    /\ done.kind = "register"
    /\ done.result = "returned"
    /\ done.library = "Library"
    /\ Len(library_listeners) = 2
    /\ library_listeners[1] # <<>>
    /\ Len(library_listeners[2]) = 4
    /\ library_listeners[2][1].library = "Other"
    /\ library_listeners[2][4].listener = "SeparateMethodsAlsoForKeywords"

\* a record of the close method of the listener of a library
IsCloseCall(record) ==
    /\ record.library # None
    /\ record.method = Resolved[record.listener]["library"]["close"]

\* the call of the engine that is running or has ended
EngineCallNow == IF stack # <<>> THEN stack[1] ELSE done

\* C20: the close method of the listener of a library is called only in
\* unregister(library, close=True) of that library: not by the close event
\* of LibraryListeners, by new_suite_scope, discard_suite_scope or
\* register, nor by unregister without close or of another library.
C20_CloseHook ==
    \A j \in 1..Len(calls) :
        IsCloseCall(calls[j]) =>
            /\ EngineCallNow.kind = "unregister"
            /\ EngineCallNow.close
            /\ EngineCallNow.library = calls[j].library

\* unregister(Library, close=True) has closed the listeners of the Library
\* and not the listener of Other in the same frame
C20_Witness ==
    /\ stack = <<>>
    /\ done.kind = "unregister"
    /\ done.close
    /\ done.library = "Library"
    /\ \E k \in 1..Len(done.list) : done.list[k].library = "Other"
    /\ \E j \in 1..Len(calls) : IsCloseCall(calls[j])
    /\ \A j \in 1..Len(calls) : calls[j].library = "Library"

(***************************************************************************)
(* A TimeoutError during an event.                                         *)
(***************************************************************************)
\* an event method run on with every listener method it enters returning
RECURSIVE Returning(_)
Returning(o) ==
    IF o.stack = <<>> THEN o
    ELSE Returning(Continue(Front(Front(o.stack)), o.stack[Len(o.stack) - 1],
                            finally(o.called), o.calls, o.ll, Nothing))

\* the event c that the engine dispatches next on a bus, its listener
\* methods returning
NextEvent(bus, c) ==
    Returning(Continue(<<>>, FrameNow(bus, c), called, <<>>,
                       library_listeners, Nothing))

\* a TimeoutError has ended an event of the engine
TimedOut ==
    /\ stack = <<>>
    /\ done.kind = "dispatch"
    /\ done.result = "TimeoutError"

\* the step in which a listener method raises TimeoutError during an event:
\* the facade methods called are those up to the raising listener, no
\* listener method is entered for a later one, the flag is clear and the
\* lists of the buses are as they were
C21_Step ==
    (InBody /\ done'.kind = "dispatch" /\ done'.result = "TimeoutError") =>
        /\ stack[Len(stack) - 1].list[stack[Len(stack) - 1].i] = Top.facade
        /\ done'.invoked =
               SubSeq(AllInvoked(done'.list, done'.method, done'.args),
                      1, stack[Len(stack) - 1].i)
        /\ calls' = calls
        /\ calls[Len(calls)] =
               CallRecord(Top.facade, [lm |-> Top.lm, args |-> Top.args])
        /\ ~called'
        /\ listeners' = listeners
        /\ library_listeners' = library_listeners

\* after the TimeoutError the flag is clear, and every event dispatched next
\* on the bus calls the facade method of every listener and enters every
\* listener method there is for it
ToAll(o, invoked) ==
    /\ o.done.result = "returned"
    /\ o.done.invoked = invoked
    /\ o.calls = Delivered(invoked)

C21_Next ==
    TimedOut =>
        /\ ~called
        /\ \A c \in EventCalls[1] :
               ~Skips(done.bus, c) =>
                   ToAll(NextEvent(done.bus, c),
                         AllInvoked(ListenersOf(done.bus), c.method, c.args))

\* C21: when a listener method raises TimeoutError during an event of a bus,
\* the delivery of the event stops there: no listener after the raising one
\* receives it; the flag is clear afterwards, and the next event dispatched
\* on the bus is delivered to all the listeners again.
C21_TimeoutStops == [](C21_Next) /\ [][C21_Step]_vars

\* the first of several listeners raised TimeoutError, and a later one has
\* a method for the event
C21_Witness ==
    /\ TimedOut
    /\ Len(done.invoked) = 1
    /\ Len(done.list) >= 2
    /\ \E k \in 2..Len(done.list) :
           Reaches(Listeners_invoke(done.list[k], done.method, done.args))
               # None
    /\ done.bus = "Listeners"

(***************************************************************************)
(* Logging the exception of a listener method.                             *)
(***************************************************************************)
\* the event method calls that LOGGER may make for the records of a failure
FailureNotices ==
    {[method |-> n.method, args |-> n.args] :
        n \in (Notifications("ERROR") \cup Notifications("INFO"))
                  \ {Unnotified}}

\* the listener method calls that would tell a listener of a failure
FailureDeliveries ==
    {Delivery(Listeners_invoke(f, c.method, c.args)) :
        f \in KnownFacades, c \in FailureNotices}

\* __call__ is in its except clause
Logging == stack # <<>> /\ Top.kind = "call" /\ Top.pc \in {"error", "info"}

\* what an event method that LOGGER calls now would do
Notice(n) ==
    Notified(stack, n.bus, [method |-> n.method, args |-> n.args],
             called, calls, library_listeners)

\* no listener method is ever entered for a record of a failure
C22_NoCallback ==
    \A k \in 1..Len(calls) : calls[k] \notin FailureDeliveries

\* while __call__ is in its except clause the flag is set, and whichever
\* event method LOGGER calls for a record calls the facade method of every
\* listener of the bus and returns, and enters no listener method
NoticeDropped(o, n) ==
    /\ o.stack = stack
    /\ o.calls = calls
    /\ o.called
    /\ o.ll = library_listeners
    /\ o.done.result = "returned"
    /\ o.done.invoked = AllInvoked(ListenersOf(n.bus), n.method, n.args)

C22_Dropped ==
    Logging =>
        /\ called
        /\ \A n \in Notifications(IF Top.pc = "error" THEN "ERROR" ELSE "INFO")
                      \ {Unnotified} :
               NoticeDropped(Notice(n), n)

\* each record is written with the flag set and without a listener method
\* being entered for it; after the INFO record the flag is clear or the
\* next listener of the event is running
C22_Records ==
    Logging =>
        /\ called
        /\ Len(log') = Len(log) + 1
        /\ log'[Len(log')].level = (IF Top.pc = "error" THEN "ERROR" ELSE "INFO")
        /\ Top.pc = "error" =>
               /\ called'
               /\ calls' = calls
               /\ stack' = [stack EXCEPT ![Len(stack)].pc = "info"]
               /\ library_listeners' = library_listeners
        /\ Top.pc = "info" =>
               /\ called' = (stack' # <<>>)
               /\ IsPrefix(calls, calls')
               /\ Len(calls') <= Len(calls) + 1
               /\ Len(calls') = Len(calls) + 1 =>
                      /\ stack'[Len(stack) - 1].i > stack[Len(stack) - 1].i
                      /\ calls'[Len(calls')] =
                             Delivery(Visit(stack[Len(stack) - 1],
                                            stack'[Len(stack) - 1].i)[1])

\* C22: when a listener method fails with an exception that is swallowed,
\* the ERROR and the INFO record are written before the flag is cleared;
\* so a message or log_message event that the logging of the failure sets
\* off is dropped, and no listener, the failing one included, is ever
\* called about the failure.
C22_LoggedUnderFlag ==
    [](C22_NoCallback /\ C22_Dropped) /\ [][C22_Records]_vars

\* the ERROR record of a failed listener method is written; the failing
\* listener is on the top-level bus and has a method for message events
C22_Witness ==
    /\ stack # <<>> /\ Top.kind = "call" /\ Top.pc = "info"
    /\ Len(log) = 1
    /\ log[1].level = "ERROR"
    /\ called
    /\ \E k \in 1..Len(listeners) : listeners[k] = Top.facade
    /\ Reaches(Listeners_invoke(Top.facade, "message",
                                <<FailureMessage("ERROR")>>)) # None

(***************************************************************************)
(* unregister(library, close=True).                                        *)
(***************************************************************************)
\* the close method of the listener of a facade, None when it has none
CloseHook(f) == Reaches(Listeners_invoke(f, "close", <<>>))

\* unregister(library, close=True) has returned
UnregisteredClosing ==
    /\ done.kind = "unregister"
    /\ done.close
    /\ done.result = "returned"

\* the close method of the facade was entered and raised an exception that
\* was logged
CloseFailed(f) ==
    /\ \E k \in 1..Len(calls) :
           calls[k] = Delivery(Listeners_invoke(f, "close", <<>>))
    /\ \E j \in 1..Len(log) :
           /\ log[j].level = "ERROR"
           /\ log[j].method = CloseHook(f)
           /\ log[j].listener = f.name

\* C23: unregister(library, close=True) that returns has called close() of
\* every facade of the library in the list it went through and has removed
\* them all from the top frame, whether their close methods ran or not: the
\* facade whose listener has no close method, the facade whose close method
\* was not entered because unregister was called inside a listener method
\* (the last listener method entered is then the one still running), and
\* the facade whose close method raised an exception other than
\* TimeoutError are removed like the others.
C23_Removed ==
    UnregisteredClosing =>
        /\ Len(library_listeners) > 0
        /\ ListenersOf("LibraryListeners") =
               OfOthers(done.list, done.library)
        /\ \A k \in 1..Len(ListenersOf("LibraryListeners")) :
               ListenersOf("LibraryListeners")[k].library # done.library
        /\ \A k \in 1..Len(done.list) :
               done.list[k].library = done.library =>
                   \E j \in 1..Len(done.invoked) :
                       done.invoked[j] =
                           Listeners_invoke(done.list[k], "close", <<>>)
        /\ done.depth > 1 =>
               /\ InBody
               /\ calls[Len(calls)] =
                      CallRecord(Top.facade, [lm |-> Top.lm, args |-> Top.args])

\* the engine unregistered a library of which one listener has no close
\* method and another has one that failed
C23_Witness ==
    /\ UnregisteredClosing
    /\ stack = <<>>
    /\ \E k \in 1..Len(done.list) :
           /\ done.list[k].library = done.library
           /\ CloseHook(done.list[k]) = None
    /\ \E k \in 1..Len(done.list) :
           /\ done.list[k].library = done.library
           /\ CloseFailed(done.list[k])

\* listener code unregistered a library that has a listener with a close
\* method
C23_Dropped ==
    /\ UnregisteredClosing
    /\ InBody
    /\ done.depth > 1
    /\ \E k \in 1..Len(done.list) :
           /\ done.list[k].library = done.library
           /\ CloseHook(done.list[k]) # None

(***************************************************************************)
(* A TimeoutError during unregister(library, close=True).                  *)
(***************************************************************************)
\* the close() calls that unregister makes for the facades of a list
RECURSIVE Closes(_, _)
Closes(list, library) ==
    IF list = <<>> THEN <<>>
    ELSE (IF Head(list).library = library
          THEN <<Listeners_invoke(Head(list), "close", <<>>)>> ELSE <<>>)
         \o Closes(Tail(list), library)

\* a TimeoutError has ended unregister(library, close=True)
UnregisterTimedOut ==
    /\ done.kind = "unregister"
    /\ done.result = "TimeoutError"

\* the list that an unregister goes through is the frame it was called on,
\* with what listener code has registered since, until listener code
\* replaces the frame
C24_Attached ==
    \A k \in 1..Len(stack) :
        (stack[k].kind = "unregister" /\ stack[k].att > 0) =>
            /\ stack[k].att <= Len(library_listeners)
            /\ library_listeners[stack[k].att] = stack[k].list

\* the TimeoutError has reached the engine, and the top frame is the list
\* that unregister went through, the facades of the library included
C24_Kept ==
    UnregisterTimedOut =>
        /\ stack = <<>>
        /\ done.depth = 1
        /\ done.close
        /\ done.att > 0 =>
               /\ done.att = Len(library_listeners)
               /\ ListenersOf("LibraryListeners") = done.list

\* the step in which a close method raises TimeoutError: no frame changes,
\* close() was called for the facades of the library up to the raising one
\* and for none after it, and no listener method is entered
C24_Step ==
    (InBody /\ done'.kind = "unregister" /\ done'.result = "TimeoutError") =>
        /\ library_listeners' = library_listeners
        /\ Top.facade.library = done'.library
        /\ Top.lm.method = CloseHook(Top.facade)
        /\ done'.list[stack[Len(stack) - 1].i] = Top.facade
        /\ done'.invoked =
               Closes(SubSeq(done'.list, 1, stack[Len(stack) - 1].i),
                      done'.library)
        /\ calls' = calls
        /\ ~called'

\* C24: when a close method raises TimeoutError during
\* unregister(library, close=True), the TimeoutError reaches the caller and
\* unregister changes no frame: the top frame still is the list it went
\* through (the frame it was called on, unless listener code changed it in
\* between), with every facade of the library, those already closed
\* included, and close() is not called for the later facades.
C24_TimeoutKeeps == [](C24_Attached /\ C24_Kept) /\ [][C24_Step]_vars

\* the close method of the second facade of the library raised TimeoutError
\* after that of the first had returned; a third was not closed; all are in
\* the top frame
C24_Witness ==
    /\ UnregisterTimedOut
    /\ Len(calls) = 2
    /\ Len(done.invoked) = 2
    /\ calls[1] = Delivery(done.invoked[1])
    /\ calls[2] = Delivery(done.invoked[2])
    /\ ListenersOf("LibraryListeners") = done.list
    /\ Len(Closes(done.list, done.library)) = 3

(***************************************************************************)
(* register(library) of a library with a listener that fails.              *)
(***************************************************************************)
\* one of the listeners of the library cannot be taken into use
HasFailing(library) ==
    \E k \in 1..Len(LibraryOf(library).listeners) :
        Fails(LibraryOf(library).listeners[k])

\* the frame is made of the facades of whole libraries, none of which has a
\* listener that fails
RECURSIVE WholeLibraries(_)
WholeLibraries(frame) ==
    \/ frame = <<>>
    \/ \E library \in Libraries :
           /\ ~HasFailing(library)
           /\ FacadesOf(library) # <<>>
           /\ IsPrefix(FacadesOf(library), frame)
           /\ WholeLibraries(SubSeq(frame, Len(FacadesOf(library)) + 1,
                                    Len(frame)))

\* register has raised DataError
RegisterFailed == done.kind = "register" /\ done.result = "DataError"

\* no frame holds a facade of a library with a listener that fails
C25_Whole ==
    \A d \in 1..Len(library_listeners) : WholeLibraries(library_listeners[d])

\* the step in which register raises DataError changes no frame and no
\* list that a loop goes through, and enters no listener method
C25_Step ==
    ((done = Nothing \/ InBody) /\ done'.kind = "register"
         /\ done'.result = "DataError") =>
        /\ HasFailing(done'.library)
        /\ library_listeners' = library_listeners
        /\ Len(stack') = Len(stack)
        /\ \A k \in 1..Len(stack) :
               stack[k].kind # "call" => stack'[k] = stack[k]
        /\ called' = called
        /\ calls' = CallsNow

\* C25: register(library) of a library one of whose listeners cannot be
\* taken into use raises DataError and changes no frame: none of the
\* library's listeners is registered, those imported before the failing
\* one included.
C25_AllOrNothing == [](C25_Whole) /\ [][C25_Step]_vars

\* register of a library whose first listener can be taken into use and
\* whose second cannot, on a top frame that holds facades
C25_Witness ==
    /\ RegisterFailed
    /\ Len(LibraryOf(done.library).listeners) = 2
    /\ Succeeds(LibraryOf(done.library).listeners[1])
    /\ Fails(LibraryOf(done.library).listeners[2])
    /\ Len(library_listeners) > 0
    /\ ListenersOf("LibraryListeners") # <<>>

(***************************************************************************)
(* The scope stack with no frame, and the number of frames.                *)
(***************************************************************************)
NoFrame == library_listeners = <<>>

\* the step is a call by the code in control that has ended
Ends(kind) ==
    /\ (stack = <<>> /\ done = Nothing) \/ InBody
    /\ done'.kind = kind

\* an event method of the bus has run in the step
EventOf(bus) ==
    \/ Ends("dispatch") /\ done'.bus = bus
    \/ Len(stack') > Len(stack) /\ stack'[Len(stack) + 1].bus = bus

Pushed == done = Nothing /\ done'.kind = "new_suite_scope"

Popped ==
    /\ done = Nothing
    /\ done'.kind = "discard_suite_scope"
    /\ done'.result = "returned"

\* with no frame LibraryListeners is falsy
C26_Falsy == NoFrame => ~__bool__("LibraryListeners")

\* with no frame an event method of LibraryListeners calls no facade,
\* enters no listener method and changes nothing; register, unregister and
\* discard_suite_scope raise and leave the stack without a frame
C26_Empty ==
    NoFrame =>
        /\ EventOf("LibraryListeners") =>
               /\ Ends("dispatch")
               /\ done'.result = "returned"
               /\ done'.list = <<>>
               /\ done'.invoked = <<>>
               /\ calls' = CallsNow
               /\ log' = LogNow
               /\ called' = called
               /\ library_listeners' = library_listeners
               /\ listeners' = listeners
               /\ Len(stack') = Len(stack)
        /\ (Ends("register") \/ Ends("unregister")
                \/ Ends("discard_suite_scope")) =>
               /\ done'.result \in {"IndexError", "DataError"}
               /\ done'.result = "DataError" =>
                      done'.kind = "register" /\ HasFailing(done'.library)
               /\ library_listeners' = <<>>
               /\ calls' = CallsNow
               /\ called' = called

\* a step changes the number of frames by one more when it is a
\* new_suite_scope and by one less when it is a discard_suite_scope that
\* returns, and not otherwise
C26_Count ==
    Len(library_listeners') =
        Len(library_listeners) + (IF Pushed THEN 1 ELSE 0)
                               - (IF Popped THEN 1 ELSE 0)

\* C26: on a scope stack with no frame every event method is a no-op and
\* the stack is falsy, and register, unregister and discard_suite_scope
\* raise an error and leave the stack without a frame; the stack starts
\* with no frame, and its number of frames is that of the new_suite_scope
\* calls minus that of the discard_suite_scope calls that returned.
C26_NoFrame ==
    /\ NoFrame
    /\ [](C26_Falsy)
    /\ [][C26_Empty /\ C26_Count]_vars

\* register of a library with listeners has failed on the stack with no
\* frame
C26_Witness ==
    /\ NoFrame
    /\ done.kind = "register"
    /\ done.result = "IndexError"
    /\ LibraryOf(done.library).listeners # <<>>
    /\ ~__bool__("LibraryListeners")

\* the only frame has been discarded
C26_Discarded ==
    /\ NoFrame
    /\ done.kind = "discard_suite_scope"
    /\ done.result = "returned"

====
